---- MODULE Spec2Model ----
(***************************************************************************)
(* A model of the command execution pipeline of the key/value server:      *)
(* Index::execute_command (src/src/index/mod.rs), the StringExecutor       *)
(* (src/src/string_executor/mod.rs) and the ListExecutor                   *)
(* (src/src/list_executor/mod.rs).                                         *)
(*                                                                         *)
(* Byte strings (keys, values, arguments, replies and error messages) are  *)
(* TLA+ strings.  A HashMap is a function whose DOMAIN is the set of keys  *)
(* present.  i64 is scaled down to IntBits bits.                           *)
(***************************************************************************)
EXTENDS Integers, Sequences, FiniteSets, TLC

VARIABLES
    index,            \* Index.shared.entries : HashMap<String, KeyType>
    strings,          \* StringExecutor.data.entries : HashMap<String, Entry>
    lists,            \* ListExecutor.data : HashMap<String, VecDeque<Bytes>>
    poisoned,         \* the Index mutex was poisoned by a panic of its holder
    overflow_checks,  \* the build panics on integer overflow (debug) or wraps (release)
    request,          \* the argv of the last request passed to execute_command
    result,           \* what that call produced: a reply, an error or a panic
    prev,             \* index, strings, lists and poisoned just before that call
    M,                \* holder of the Index mutex in the worker-level model
    worker,           \* per worker: position in execute_command and its locals
    rpushed,          \* per key: the values RPUSHed since it had no list (history)
    received,         \* the bytes last handed to identify_command
    identified,       \* what identify_command returned for them
    sent,             \* how those bytes were composed (history)
    scan,             \* identify_command in progress: position, tokens, positions read
    conn,             \* one TCP connection: the stream, what was read and written
    handler           \* handle_connection on that connection: position and locals

\* The wire side of the server: the tokenizer's input and output, the connection.
wire == <<received, identified, sent, scan, conn, handler>>

vars == <<index, strings, lists, poisoned, overflow_checks, request, result, prev, M, worker,
          rpushed, wire>>

-----------------------------------------------------------------------------
(* Bounds of the model *)

\* Width in bits of the scaled-down i64.
IntBits == 2

Keys == {"a", "b"}

\* Values a client passes to SET / INCRBY / DECRBY.
MinI64 == -(2 ^ (IntBits - 1))
MaxI64 == (2 ^ (IntBits - 1)) - 1

CRLF == "\r\n"

-----------------------------------------------------------------------------
(* Decimal formatting and parsing of i64 *)

DigitChar == <<"0", "1", "2", "3", "4", "5", "6", "7", "8", "9">>

RECURSIVE NatStr(_)
NatStr(n) == IF n < 10 THEN DigitChar[n + 1]
             ELSE NatStr(n \div 10) \o DigitChar[(n % 10) + 1]

\* i64::to_string / u16::to_string / usize::to_string
to_string(n) == IF n < 0 THEN "-" \o NatStr(-n) ELSE NatStr(n)

\* The texts str::parse::<i64> maps to n: the canonical decimal and, for
\* n >= 0, the decimal with a leading '+'.
Spellings(n) == {to_string(n)} \cup (IF n >= 0 THEN {"+" \o to_string(n)} ELSE {})

\* str::parse::<i64>: Ok(n) when the text spells an integer of the range.
parse_i64(s) ==
    IF \E n \in MinI64..MaxI64 : s \in Spellings(n)
    THEN [ok |-> TRUE, val |-> CHOOSE n \in MinI64..MaxI64 : s \in Spellings(n)]
    ELSE [ok |-> FALSE, val |-> 0]

\* Two's-complement wrap of a result into the i64 range.
wrap_i64(x) == ((x - MinI64) % (2 ^ IntBits)) + MinI64

-----------------------------------------------------------------------------
(* HashMap helpers *)

MapPut(m, k, v) == [x \in (DOMAIN m) \cup {k} |-> IF x = k THEN v ELSE m[x]]
MapDel(m, k) == [x \in (DOMAIN m) \ {k} |-> m[x]]
EmptyMap == [x \in {} |-> ""]

-----------------------------------------------------------------------------
(* Tokenizer: request bytes to argv.  A byte slice is a sequence of          *)
(* one-character strings.                                                    *)

\* The messages of the tokenizer's ParserErrors, by the names of its constants.
ParserMessages ==
    [EMPTY_REQUEST |-> "Request is empty",
     NO_TOKENS_FOUND |-> "No tokens found in the request",
     INVALID_REQUEST_STRUCTURE |->
         "Invalid request structure, expected an array indicator '*' at the start",
     INVALID_TOKEN_FORMAT |->
         "Invalid token format, expected newline after carriage return",
     EMPTY_TOKEN_VALUE |->
         "Empty token value; expected at least one character before carriage return",
     TOKEN_SIZE_NOT_A_BYTE |-> "Unable to determine size of Token",
     TOKEN_SIZE_NOT_A_NUMBER |-> "Token size is not a valid number",
     SIZE_CANNOT_BE_ZERO |-> "Array size cannot be zero",
     IDENTIFIER_IS_WRONG_SIZE |-> "Identifier size is less than expected",
     TOKEN_IS_NOT_VALID_UTF8 |-> "Identifiers are not valid UTF-8 bytes",
     INVALID_NO_SIZE_TOKEN |-> "Expected size token '$' before identifier",
     INVALID_NO_IDENTIFIER |-> "Expected identifier after size token",
     INVALID_REQUEST_INCORRECT_SIZE |->
         "Invalid structure, number of identifiers does not match expected size"]

CR == "\r"
LF == "\n"

\* A byte that is not part of any UTF-8 text.
NotUtf8 == "<FF>"

\* An Err of the tokenizer, with its message.
Failure(msg) == [ok |-> FALSE, err |-> msg]

\* A Token whose size leaves out the CR LF after its value.
Token_sized_by_value(value, size) ==
    [ok |-> TRUE, err |-> "", value |-> value, size |-> Len(value)]

\* Token { value, size }
Token(value, size) == [ok |-> TRUE, err |-> "", value |-> value, size |-> size]

\* The smallest member of a non-empty set of numbers.
Min(S) == CHOOSE x \in S : \A y \in S : x <= y

\* get_token that leaves the carriage return at the end of the token's value.
get_token_keeps_cr(input, start) ==
    IF Len(input) = 0 \/ start >= Len(input)
    THEN Failure(ParserMessages.EMPTY_REQUEST)
    ELSE LET crs == {i \in start..(Len(input) - 1) : input[i + 1] = CR} IN
         IF crs = {}
         THEN Token(SubSeq(input, start + 1, Len(input)), (Len(input) - start) + 2)
         ELSE IF Min(crs) = start THEN Failure(ParserMessages.EMPTY_TOKEN_VALUE)
         ELSE IF Min(crs) + 1 >= Len(input) \/ input[Min(crs) + 2] # LF
         THEN Failure(ParserMessages.INVALID_TOKEN_FORMAT)
         ELSE Token(SubSeq(input, start + 1, Min(crs) + 1), (Min(crs) - start) + 2)

\* get_token: start is the 0-based position of the token in the input.
get_token(input, start) ==
    IF Len(input) = 0 \/ start >= Len(input)
    THEN Failure(ParserMessages.EMPTY_REQUEST)
    ELSE LET crs == {i \in start..(Len(input) - 1) : input[i + 1] = CR} IN
         IF crs = {}
         THEN Token(SubSeq(input, start + 1, Len(input)), (Len(input) - start) + 2)
         ELSE LET count_of_characters == Min(crs) - start IN
              IF count_of_characters = 0 THEN Failure(ParserMessages.EMPTY_TOKEN_VALUE)
              ELSE IF Min(crs) + 1 >= Len(input) \/ input[Min(crs) + 2] # LF
              THEN Failure(ParserMessages.INVALID_TOKEN_FORMAT)
              ELSE Token(SubSeq(input, start + 1, start + count_of_characters),
                         count_of_characters + 2)

\* The 0-based positions of input that get_token indexes: input[index] in the
\* for loop, input[index + 1] behind the length test, and the slice.
get_token_reads(input, start) ==
    IF Len(input) = 0 \/ start >= Len(input) THEN {}
    ELSE LET crs == {i \in start..(Len(input) - 1) : input[i + 1] = CR} IN
         IF crs = {} THEN start..(Len(input) - 1)
         ELSE IF Min(crs) = start THEN {start}
         ELSE (start..Min(crs))
              \cup (IF Min(crs) + 1 >= Len(input) THEN {} ELSE {Min(crs) + 1})

\* Result<Vec<Token>, &str>
TokensOk(tokens) == [ok |-> TRUE, err |-> "", tokens |-> tokens]

\* The while loop of tokenize_request from position start on.
RECURSIVE tokenize_from(_, _, _)
tokenize_from(request_bytes, start, tokens) ==
    IF start < Len(request_bytes)
    THEN LET token == get_token(request_bytes, start) IN
         IF token.ok
         THEN tokenize_from(request_bytes, start + token.size, Append(tokens, token))
         ELSE Failure(token.err)
    ELSE TokensOk(tokens)

tokenize_request(request_bytes) == tokenize_from(request_bytes, 0, <<>>)

\* The number a digit character stands for.
DigitValue(c) == CHOOSE d \in 0..9 : DigitChar[d + 1] = c

IsDigit(c) == \E d \in 0..9 : DigitChar[d + 1] = c

RECURSIVE DigitsValue(_)
DigitsValue(digits) ==
    IF digits = <<>> THEN 0
    ELSE 10 * DigitsValue(SubSeq(digits, 1, Len(digits) - 1))
         + DigitValue(digits[Len(digits)])

\* str::parse::<usize>: digits with an optional leading '+'.
parse_usize(chars) ==
    LET digits == IF chars # <<>> /\ chars[1] = "+" THEN Tail(chars) ELSE chars IN
    IF digits = <<>> \/ \E i \in 1..Len(digits) : ~IsDigit(digits[i])
    THEN [ok |-> FALSE, val |-> 0]
    ELSE [ok |-> TRUE, val |-> DigitsValue(digits)]

\* String::from_utf8: the bytes as a String, an error for a byte outside UTF-8.
is_utf8(bytes) == \A i \in 1..Len(bytes) : bytes[i] # NotUtf8

RECURSIVE from_utf8(_)
from_utf8(bytes) == IF bytes = <<>> THEN "" ELSE bytes[1] \o from_utf8(Tail(bytes))

\* Result<usize, ParserError>
SizeOk(size) == [ok |-> TRUE, err |-> "", val |-> size]

get_number_of_chars(token) ==
    IF ~is_utf8(Tail(token.value)) THEN Failure(ParserMessages.TOKEN_SIZE_NOT_A_BYTE)
    ELSE LET size == parse_usize(Tail(token.value)) IN
         IF ~size.ok THEN Failure(ParserMessages.TOKEN_SIZE_NOT_A_NUMBER)
         ELSE IF size.val = 0 THEN Failure(ParserMessages.SIZE_CANNOT_BE_ZERO)
         ELSE SizeOk(size.val)

\* Result<Vec<String>, ParserError>
ArgvOk(argv) == [ok |-> TRUE, err |-> "", argv |-> argv]

\* validate_pair that does not compare the identifier's length with the size.
validate_pair_size_unchecked(tokens, idx, size) ==
    IF ~size.ok THEN Failure(size.err)
    ELSE IF idx + 1 >= Len(tokens) THEN Failure(ParserMessages.INVALID_NO_IDENTIFIER)
    ELSE IF ~is_utf8(tokens[idx + 2].value) THEN Failure(ParserMessages.TOKEN_IS_NOT_VALID_UTF8)
    ELSE ArgvOk(<<from_utf8(tokens[idx + 2].value)>>)

\* One pass of the loop of validate_request_structure over the pair that
\* starts at tokens[idx] (0-based); size is the parsed size token.
validate_pair(tokens, idx, size) ==
    IF ~size.ok THEN Failure(size.err)
    ELSE IF idx + 1 >= Len(tokens) THEN Failure(ParserMessages.INVALID_NO_IDENTIFIER)
    ELSE IF ~is_utf8(tokens[idx + 2].value) THEN Failure(ParserMessages.TOKEN_IS_NOT_VALID_UTF8)
    ELSE IF Len(tokens[idx + 2].value) = 0 \/ Len(tokens[idx + 2].value) # size.val
    THEN Failure(ParserMessages.IDENTIFIER_IS_WRONG_SIZE)
    ELSE ArgvOk(<<from_utf8(tokens[idx + 2].value)>>)

\* The loop of validate_request_structure from pair idx on, and the final
\* comparison of the number of identifiers with the announced one.
RECURSIVE validate_pairs(_, _, _, _)
validate_pairs(tokens, idx, response, num_children) ==
    IF idx < Len(tokens)
    THEN IF tokens[idx + 1].value[1] # "$" THEN Failure(ParserMessages.INVALID_NO_SIZE_TOKEN)
         ELSE LET pair == validate_pair(tokens, idx, get_number_of_chars(tokens[idx + 1]))
              IN IF ~pair.ok THEN pair
                 ELSE validate_pairs(tokens, idx + 2, response \o pair.argv, num_children)
    ELSE IF Len(response) # num_children THEN Failure(ParserMessages.INVALID_REQUEST_INCORRECT_SIZE)
    ELSE ArgvOk(response)

validate_request_structure(tokens) ==
    IF tokens = <<>> THEN Failure(ParserMessages.NO_TOKENS_FOUND)
    ELSE IF tokens[1].value = <<>> \/ tokens[1].value[1] # "*"
    THEN Failure(ParserMessages.INVALID_REQUEST_STRUCTURE)
    ELSE LET num_children == get_number_of_chars(tokens[1]) IN
         IF ~num_children.ok THEN num_children
         ELSE validate_pairs(tokens, 1, <<>>, num_children.val)

identify_command(request_bytes) ==
    IF request_bytes = <<>> THEN Failure(ParserMessages.EMPTY_REQUEST)
    ELSE LET tokens == tokenize_request(request_bytes) IN
         IF ~tokens.ok THEN Failure(tokens.err)
         ELSE validate_request_structure(tokens.tokens)

-----------------------------------------------------------------------------
(* Commands *)

REDIS_STRING_COMMANDS == {"GET", "SET", "INCR", "INCRBY", "DECR", "DECRBY"}
REDIS_LIST_COMMANDS == {"LLEN", "LINDEX", "RPUSH", "RPOP", "LPUSH", "LPOP"}
REDIS_INDEX_COMMANDS == {"EXISTS", "DEL", "RENAME"}

\* The lower-case spellings of the verbs the model's clients send.
LowerCase == [get |-> "GET", set |-> "SET", incr |-> "INCR", incrby |-> "INCRBY",
              decr |-> "DECR", decrby |-> "DECRBY", exists |-> "EXISTS",
              del |-> "DEL", rename |-> "RENAME", llen |-> "LLEN",
              lindex |-> "LINDEX", rpush |-> "RPUSH", rpop |-> "RPOP",
              lpush |-> "LPUSH", lpop |-> "LPOP"]

\* Spellings of the verbs in mixed case.
MixedCase == [Get |-> "GET", sEt |-> "SET", Incr |-> "INCR", incrBy |-> "INCRBY",
              dEcR |-> "DECR", DecrBY |-> "DECRBY", Exists |-> "EXISTS",
              dEL |-> "DEL", ReName |-> "RENAME", lLen |-> "LLEN",
              LIndex |-> "LINDEX", rPush |-> "RPUSH", RPop |-> "RPOP",
              LPush |-> "LPUSH", lpoP |-> "LPOP"]

\* str::to_uppercase
to_uppercase(s) == IF s \in DOMAIN LowerCase THEN LowerCase[s]
                   ELSE IF s \in DOMAIN MixedCase THEN MixedCase[s]
                   ELSE s

\* A comparison that tells the letter cases apart.
eq_case_sensitive(cmd, command) == cmd = command

\* str::eq_ignore_ascii_case
eq_ignore_ascii_case(cmd, command) == to_uppercase(cmd) = to_uppercase(command)

\* CommandIdentifier::new
CommandIdentifier(command_type, target, action, params, key_type, lock_type) ==
    [command_type |-> command_type, target |-> target, action |-> action,
     params |-> params, key_type |-> key_type, lock_type |-> lock_type]

\* CommandCompleted::new
CommandCompleted(key_name, key_type, impact_on_index, response) ==
    [key_name |-> key_name, key_type |-> key_type,
     impact_on_index |-> impact_on_index, response |-> response]

\* CommandCompleted::default()
DefaultCompleted == CommandCompleted("", "Undefined", "NoImpact", "")

NoCommand == CommandIdentifier("UnknownCommand", "", "", <<>>, "Undefined", "Read")

\* Result<CommandIdentifier, ParserError>
BuildOk(cmd) == [ok |-> TRUE, err |-> "", cmd |-> cmd]
BuildErr(msg) == [ok |-> FALSE, err |-> msg, cmd |-> NoCommand]

-----------------------------------------------------------------------------
(* StringExecutor *)

StringExecutor_is_command_supported(command) ==
    \E cmd \in REDIS_STRING_COMMANDS : eq_ignore_ascii_case(cmd, command)

StringExecutor_build_command(command) ==
    IF Len(command) < 2
    THEN BuildErr("Not enough identifiers provided for string command")
    ELSE LET verb == to_uppercase(command[1])
             one  == CommandIdentifier("StringCommand", command[2], verb, <<>>,
                                       "String", IF verb = "GET" THEN "Read" ELSE "Write")
             two  == CommandIdentifier("StringCommand", command[2], verb,
                                       <<command[3]>>,
                                       "String", "Write")
         IN CASE verb = "GET" ->
                   IF Len(command) # 2
                   THEN BuildErr("GET command requires exactly one parameter")
                   ELSE BuildOk(one)
              [] verb = "SET" ->
                   IF Len(command) # 3
                   THEN BuildErr("SET command requires two parameter")
                   ELSE BuildOk(two)
              [] verb = "INCR" ->
                   IF Len(command) # 2
                   THEN BuildErr("INCR command requires one parameter")
                   ELSE BuildOk(one)
              [] verb = "INCRBY" ->
                   IF Len(command) # 3
                   THEN BuildErr("INCRBY command requires two parameter")
                   ELSE BuildOk(two)
              [] verb = "DECR" ->
                   IF Len(command) # 2
                   THEN BuildErr("INCR command requires one parameter")
                   ELSE BuildOk(one)
              [] verb = "DECRBY" ->
                   IF Len(command) # 3
                   THEN BuildErr("DECRBY command requires two parameter")
                   ELSE BuildOk(two)
              [] OTHER -> BuildErr("Unsupported string command type")

\* InternalStorage::get : Some(value) / None
storage_has(data, key) == key \in DOMAIN data
storage_get(data, key) == data[key]
\* A set that keeps the value of a key that already has one.
storage_set_keeps_existing(data, key, value) ==
    IF key \in DOMAIN data THEN data ELSE MapPut(data, key, value)

\* InternalStorage::set
storage_set(data, key, value) == MapPut(data, key, value)
\* InternalStorage::del
storage_del(data, key) == MapDel(data, key)

\* Result<CommandCompleted, ExecutionError> of a store, with the store after
\* the call; kind "panic" is a thread panic inside the call.
ExecOk(data, cmd) == [kind |-> "ok", err |-> "", data |-> data, cmd |-> cmd]
ExecErr(data, msg) == [kind |-> "err", err |-> msg, data |-> data, cmd |-> DefaultCompleted]
ExecPanic(data) == [kind |-> "panic", err |-> "", data |-> data, cmd |-> DefaultCompleted]

format_string_response(value) == "+" \o value \o CRLF

\* An adjustment that starts from 0 whatever the key holds.
adjust_value_ignores_stored(data, command, adjustment, checks) ==
    LET key == command.target
        updated_value == to_string(adjustment)
    IN ExecOk(storage_set(data, key, updated_value),
              CommandCompleted(key, "String",
                               IF storage_has(data, key) THEN "NoImpact" ELSE "Add",
                               format_string_response(updated_value)))

\* An adjustment that takes a stored value that is no integer for 0.
adjust_value_resets_non_integer(data, command, adjustment, checks) ==
    LET key == command.target
        parsed == IF storage_has(data, key) THEN parse_i64(storage_get(data, key))
                  ELSE [ok |-> TRUE, val |-> 0]
        sum == (IF parsed.ok THEN parsed.val ELSE 0) + adjustment
    IN IF (sum < MinI64 \/ sum > MaxI64) /\ checks
       THEN ExecPanic(data)
       ELSE ExecOk(storage_set(data, key, to_string(wrap_i64(sum))),
                   CommandCompleted(key, "String",
                                    IF storage_has(data, key) THEN "NoImpact" ELSE "Add",
                                    format_string_response(to_string(wrap_i64(sum)))))

\* StringExecutor::adjust_value_if_exists
adjust_value_if_exists(data, command, adjustment, checks) ==
    LET key == command.target IN
    IF storage_has(data, key)
    THEN LET parsed == parse_i64(storage_get(data, key)) IN
         IF parsed.ok
         THEN LET sum == parsed.val + adjustment IN
              IF (sum < MinI64 \/ sum > MaxI64) /\ checks
              THEN ExecPanic(data)
              ELSE LET updated_value == to_string(wrap_i64(sum)) IN
                   ExecOk(storage_set(data, key, updated_value),
                          CommandCompleted(key, "String", "NoImpact",
                                           format_string_response(updated_value)))
         ELSE ExecErr(data, "-ERR value is not an integer or out of range")
    ELSE LET updated_value == to_string(adjustment) IN
         ExecOk(storage_set(data, key, updated_value),
                CommandCompleted(key, "String", "Add",
                                 format_string_response(updated_value)))

StringExecutor_execute_command(data, command, checks) ==
    LET key == command.target
        action == command.action
    IN CASE action = "GET" ->
              IF storage_has(data, key)
              THEN ExecOk(data, CommandCompleted(key, "String", "NoImpact",
                                   format_string_response(storage_get(data, key))))
              ELSE ExecOk(data, CommandCompleted(key, "String", "NoImpact",
                                                 "+(nil)" \o CRLF))
         [] action = "SET" ->
              ExecOk(storage_set(data, key, command.params[1]),
                     CommandCompleted(key, "String", "Add", "+OK" \o CRLF))
         [] action = "INCR" -> adjust_value_if_exists(data, command, 1, checks)
         [] action = "INCRBY" ->
              LET adjustment == parse_i64(command.params[1]) IN
              IF ~adjustment.ok THEN ExecPanic(data)
              ELSE adjust_value_if_exists(data, command, adjustment.val, checks)
         [] action = "DECR" -> adjust_value_if_exists(data, command, -1, checks)
         [] action = "DECRBY" ->
              LET adjustment == parse_i64(command.params[1]) IN
              IF ~adjustment.ok THEN ExecPanic(data)
              ELSE IF -adjustment.val > MaxI64
                   THEN IF checks THEN ExecPanic(data)
                        ELSE adjust_value_if_exists(data, command,
                                                    wrap_i64(-adjustment.val), checks)
                   ELSE adjust_value_if_exists(data, command, -adjustment.val, checks)
         [] OTHER ->
              ExecErr(data, "-WRONGTYPE Operation against a key holding the wrong kind of value")

\* StringExecutor::delete
StringExecutor_delete(data, key) == [data |-> storage_del(data, key), count |-> 1]

\* rename that copies the value and leaves the old key in place.
StringExecutor_rename_copies(data, old_key, new_key) ==
    IF storage_has(data, old_key)
    THEN [data |-> storage_set(data, new_key, storage_get(data, old_key)),
          renamed |-> TRUE]
    ELSE [data |-> data, renamed |-> FALSE]

\* StringExecutor::rename
StringExecutor_rename(data, old_key, new_key) ==
    IF storage_has(data, old_key)
    THEN [data |-> storage_del(storage_set(data, new_key, storage_get(data, old_key)),
                               old_key),
          renamed |-> TRUE]
    ELSE [data |-> data, renamed |-> FALSE]

-----------------------------------------------------------------------------
(* ListExecutor *)

\* Width in bits of the scaled-down isize / usize.
IsizeBits == 4

MinIsize == -(2 ^ (IsizeBits - 1))
MaxIsize == (2 ^ (IsizeBits - 1)) - 1

\* str::parse::<isize>
parse_isize(s) ==
    IF \E n \in MinIsize..MaxIsize : s \in Spellings(n)
    THEN [ok |-> TRUE, val |-> CHOOSE n \in MinIsize..MaxIsize : s \in Spellings(n)]
    ELSE [ok |-> FALSE, val |-> 0]

\* The cast `index as usize`: a negative isize becomes its two's complement.
as_usize(i) == IF i < 0 THEN (2 ^ IsizeBits) + i ELSE i

ListExecutor_is_command_supported(command) ==
    \E cmd \in REDIS_LIST_COMMANDS : eq_ignore_ascii_case(cmd, command)

ListExecutor_build_command(command) ==
    IF Len(command) < 2
    THEN BuildErr("Not enough identifiers provided for List command")
    ELSE LET verb == to_uppercase(command[1])
             one(lock_type) == CommandIdentifier("ListCommand", command[2], verb, <<>>,
                                                 "List", lock_type)
             two(lock_type) == CommandIdentifier("ListCommand", command[2], verb,
                                                 <<command[3]>>, "List", lock_type)
         IN CASE verb = "LLEN" ->
                   IF Len(command) # 2
                   THEN BuildErr("LLEN command requires exactly one parameter")
                   ELSE BuildOk(one("Read"))
              [] verb = "LINDEX" ->
                   IF Len(command) # 3
                   THEN BuildErr("LINDEX command requires exactly two parameters")
                   ELSE BuildOk(two("Read"))
              [] verb = "RPUSH" ->
                   IF Len(command) # 3
                   THEN BuildErr("RPUSH command requires exactly two parameters")
                   ELSE BuildOk(two("Write"))
              [] verb = "RPOP" ->
                   IF Len(command) # 2
                   THEN BuildErr("RPOP command requires exactly one parameters")
                   ELSE BuildOk(one("Write"))
              [] verb = "LPUSH" ->
                   IF Len(command) # 3
                   THEN BuildErr("LPUSH command requires exactly two parameters")
                   ELSE BuildOk(two("Write"))
              [] verb = "LPOP" ->
                   IF Len(command) # 2
                   THEN BuildErr("LPOP command requires exactly one parameters")
                   ELSE BuildOk(one("Write"))
              [] OTHER -> BuildErr("Unsupported List command type")

format_size_response(size) == ":" \o to_string(size) \o CRLF

ListExecutor_format_string_response(value) == "+" \o value \o CRLF

format_null_response == "_" \o CRLF

\* ListExecutor::index_from_bytes
index_from_bytes(bytes) ==
    LET parsed == parse_isize(bytes) IN
    IF parsed.ok THEN [ok |-> TRUE, val |-> as_usize(parsed.val), err |-> ""]
    ELSE [ok |-> FALSE, val |-> 0, err |-> "Index is not an integer or out of range"]

\* VecDeque::get with a 0-based usize index: Some(value) / None
deque_has(entry, i) == i < Len(entry)
deque_get(entry, i) == entry[i + 1]

\* A push_back that puts the value at the head.
push_back_at_head(entry, value) == <<value>> \o entry

\* VecDeque::push_back
push_back(entry, value) == Append(entry, value)

\* VecDeque::push_front
push_front(entry, value) == <<value>> \o entry

\* VecDeque::pop_back on an entry that has elements
pop_back(entry) ==
    [value |-> entry[Len(entry)], rest |-> SubSeq(entry, 1, Len(entry) - 1)]

\* A pop_front that takes the tail element.
pop_front_takes_tail(entry) ==
    [value |-> entry[Len(entry)], rest |-> SubSeq(entry, 1, Len(entry) - 1)]

\* VecDeque::pop_front on an entry that has elements
pop_front(entry) == [value |-> entry[1], rest |-> SubSeq(entry, 2, Len(entry))]

\* The LLEN arm of execute_command.
list_llen(data, command) ==
    LET key == command.target
        length == IF key \in DOMAIN data THEN Len(data[key]) ELSE 0
    IN ExecOk(data, CommandCompleted(key, "List", "NoImpact",
                                     format_size_response(length)))

\* The LINDEX arm of execute_command: the index is parsed only when the key
\* has an entry.
list_lindex(data, command) ==
    LET key == command.target IN
    IF key \in DOMAIN data
    THEN LET position == index_from_bytes(command.params[1]) IN
         IF ~position.ok THEN ExecErr(data, position.err)
         ELSE ExecOk(data, CommandCompleted(
                               key, "List", "NoImpact",
                               IF deque_has(data[key], position.val)
                               THEN ListExecutor_format_string_response(
                                        deque_get(data[key], position.val))
                               ELSE format_null_response))
    ELSE ExecOk(data, CommandCompleted(key, "List", "NoImpact", format_null_response))

\* The RPUSH (at_back) and LPUSH arms of execute_command.
list_push(data, command, at_back) ==
    LET key == command.target
        entry == IF key \in DOMAIN data THEN data[key] ELSE <<>>
        index_impact == IF key \in DOMAIN data THEN "NoImpact" ELSE "Add"
        entries == IF at_back THEN push_back(entry, command.params[1])
                   ELSE push_front(entry, command.params[1])
    IN ExecOk(MapPut(data, key, entries),
              CommandCompleted(key, "List", index_impact,
                               format_size_response(Len(entries))))

\* A pop that leaves an empty entry behind for a key that had none.
list_pop_creates_entry(data, command, from_back) ==
    LET key == command.target IN
    ExecOk(IF key \in DOMAIN data THEN data ELSE MapPut(data, key, <<>>),
           CommandCompleted(key, "List", "NoImpact", format_null_response))

\* A pop that leaves the entry in place when it takes the last element.
list_pop_keeps_entry(data, command, from_back) ==
    LET key == command.target IN
    IF key \in DOMAIN data /\ data[key] # <<>>
    THEN LET popped == IF from_back THEN pop_back(data[key]) ELSE pop_front(data[key])
         IN ExecOk(MapPut(data, key, popped.rest),
                   CommandCompleted(key, "List", "NoImpact",
                                    ListExecutor_format_string_response(popped.value)))
    ELSE ExecOk(data, CommandCompleted(key, "List", "NoImpact", format_null_response))

\* The RPOP (from_back) and LPOP arms of execute_command.
list_pop(data, command, from_back) ==
    LET key == command.target IN
    IF key \in DOMAIN data /\ data[key] # <<>>
    THEN LET popped == IF from_back THEN pop_back(data[key]) ELSE pop_front(data[key])
         IN ExecOk(IF popped.rest = <<>> THEN MapDel(data, key)
                   ELSE MapPut(data, key, popped.rest),
                   CommandCompleted(key, "List",
                                    IF popped.rest = <<>> THEN "Delete" ELSE "NoImpact",
                                    ListExecutor_format_string_response(popped.value)))
    ELSE ExecOk(data, CommandCompleted(key, "List", "NoImpact", format_null_response))

ListExecutor_execute_command(data, command) ==
    CASE command.action = "LLEN" -> list_llen(data, command)
      [] command.action = "LINDEX" -> list_lindex(data, command)
      [] command.action = "RPUSH" -> list_push(data, command, TRUE)
      [] command.action = "RPOP" -> list_pop(data, command, TRUE)
      [] command.action = "LPUSH" -> list_push(data, command, FALSE)
      [] command.action = "LPOP" -> list_pop(data, command, FALSE)
      [] OTHER ->
           ExecErr(data, "-WRONGTYPE Operation against a key holding the wrong kind of value")

-----------------------------------------------------------------------------
(* Index *)

Index_is_index_command(command) ==
    \E cmd \in REDIS_INDEX_COMMANDS : eq_ignore_ascii_case(cmd, command)

build_index_command(command) ==
    IF Len(command) < 2
    THEN BuildErr("Not enough identifiers provided for index command")
    ELSE LET verb == to_uppercase(command[1]) IN
         CASE verb = "EXISTS" ->
                IF Len(command) # 2
                THEN BuildErr("EXISTS command requires exactly one parameter")
                ELSE BuildOk(CommandIdentifier("IndexCommand", command[2], "EXISTS",
                                               <<>>, "Index", "Read"))
           [] verb = "DEL" ->
                IF Len(command) # 2
                THEN BuildErr("DEL command requires one parameter")
                ELSE BuildOk(CommandIdentifier("IndexCommand", command[2], "DEL",
                                               <<>>, "Index", "Write"))
           [] verb = "RENAME" ->
                IF Len(command) # 3
                THEN BuildErr("RENAME command requires two parameter")
                ELSE BuildOk(CommandIdentifier("IndexCommand", command[2], "RENAME",
                                               <<command[3]>>, "Index", "Write"))
           [] OTHER -> BuildErr("Unsupported Index command type")

\* The maps a command works on while the Index mutex is held: the guarded
\* type map and the stores reached through Databases.
World(idx, strs, lsts) == [index |-> idx, strings |-> strs, lists |-> lsts]

\* Result<CommandCompleted, ExecutionError> of the Index, with the maps after
\* the call.
IndexOk(w, cmd) == [kind |-> "ok", err |-> "", w |-> w, cmd |-> cmd]
IndexErr(w, msg) == [kind |-> "err", err |-> msg, w |-> w, cmd |-> DefaultCompleted]

\* The type of the target in the type map, Undefined when it has none.
lookup_key_type(idx, key) == IF key \in DOMAIN idx THEN idx[key] ELSE "Undefined"

\* apply_impact whose Rename arm inserts the new name and keeps the old one.
apply_impact_keeps_source(idx, cmd, target) ==
    CASE cmd.impact_on_index = "NoImpact" -> idx
      [] cmd.impact_on_index = "Add" -> MapPut(idx, cmd.key_name, cmd.key_type)
      [] cmd.impact_on_index = "Delete" -> MapDel(idx, cmd.key_name)
      [] cmd.impact_on_index = "Rename" -> MapPut(idx, cmd.key_name, cmd.key_type)

\* apply_impact that inserts the key of a command without impact.
apply_impact_adds_always(idx, cmd, target) ==
    CASE cmd.impact_on_index \in {"NoImpact", "Add"} ->
           MapPut(idx, cmd.key_name, cmd.key_type)
      [] cmd.impact_on_index = "Delete" -> MapDel(idx, cmd.key_name)
      [] cmd.impact_on_index = "Rename" ->
           MapDel(MapPut(idx, cmd.key_name, cmd.key_type), target)

\* The match on cmd.get_impact_on_index() that ends internal_execute_command.
apply_impact(idx, cmd, target) ==
    CASE cmd.impact_on_index = "NoImpact" -> idx
      [] cmd.impact_on_index = "Add" -> MapPut(idx, cmd.key_name, cmd.key_type)
      [] cmd.impact_on_index = "Delete" -> MapDel(idx, cmd.key_name)
      [] cmd.impact_on_index = "Rename" ->
           MapDel(MapPut(idx, cmd.key_name, cmd.key_type), target)

\* The DEL arm reporting Delete to the Index without calling the store.
execute_del_index_only(w, command, original_key_type) ==
    IndexOk(w, CommandCompleted(command.target, original_key_type,
                                IF original_key_type = "Undefined"
                                THEN "NoImpact" ELSE "Delete",
                                IF original_key_type = "Undefined"
                                THEN ":0" \o CRLF ELSE ":1" \o CRLF))

\* The DEL arm calling the string store whatever the type of the key.
execute_del_unchecked(w, command, original_key_type) ==
    IndexOk(World(w.index, StringExecutor_delete(w.strings, command.target).data,
                  w.lists),
            CommandCompleted(command.target, original_key_type, "Delete",
                             ":1" \o CRLF))

\* The DEL arm of execute_index_command.
execute_del(w, command, original_key_type) ==
    LET deleted == IF original_key_type = "String"
                   THEN StringExecutor_delete(w.strings, command.target)
                   ELSE [data |-> w.strings, count |-> 0]
        num_deleted == IF original_key_type = "Undefined" THEN 0 ELSE deleted.count
        impact == IF original_key_type = "Undefined" \/ num_deleted = 0
                  THEN "NoImpact" ELSE "Delete"
        strs == IF original_key_type = "Undefined" THEN w.strings ELSE deleted.data
    IN IndexOk(World(w.index, strs, w.lists),
               CommandCompleted(command.target, original_key_type, impact,
                                ":" \o to_string(num_deleted) \o CRLF))

\* An EXISTS arm that replies :1 for every key.
execute_exists_always_one(w, command, original_key_type) ==
    IndexOk(w, CommandCompleted(command.target, "Index", "NoImpact", ":1" \o CRLF))

\* The EXISTS arm of execute_index_command.
execute_exists(w, command, original_key_type) ==
    IndexOk(w, CommandCompleted(command.target, "Index", "NoImpact",
                                IF original_key_type = "Undefined"
                                THEN ":0" \o CRLF ELSE ":1" \o CRLF))

\* The store step of the RENAME arm without the call of the store.
rename_in_store_skipped(w, command, original_key_type) ==
    IndexOk(w, CommandCompleted(command.params[1], original_key_type, "Rename",
                                "+OK" \o CRLF))

\* The store step of the RENAME arm, after the destination was deleted.
rename_in_store(w, command, original_key_type) ==
    LET destination_key == command.params[1]
        strs == IF original_key_type = "String"
                THEN StringExecutor_rename(w.strings, command.target,
                                           destination_key).data
                ELSE w.strings
    IN IndexOk(World(w.index, strs, w.lists),
               CommandCompleted(destination_key, original_key_type, "Rename",
                                "+OK" \o CRLF))

\* The RENAME arm once the nested DEL of the destination has returned: its
\* error is passed on by `?`, otherwise the store renames.
rename_after_delete(deleted, command, original_key_type) ==
    IF deleted.kind # "ok" THEN deleted
    ELSE rename_in_store(deleted.w, command, original_key_type)

RECURSIVE internal_execute_command(_, _, _)

\* execute_index_command whose RENAME arm deletes the destination before it
\* looks at the type of the source.
execute_index_command_deletes_first(w, command, original_key_type, checks) ==
    CASE command.action = "EXISTS" -> execute_exists(w, command, original_key_type)
      [] command.action = "DEL" -> execute_del(w, command, original_key_type)
      [] command.action = "RENAME" ->
           IF original_key_type = "Undefined"
           THEN IndexErr(internal_execute_command(
                             w, build_index_command(<<"DEL", command.params[1]>>).cmd,
                             checks).w,
                         "-no such key")
           ELSE rename_after_delete(
                    internal_execute_command(
                        w, build_index_command(<<"DEL", command.params[1]>>).cmd,
                        checks),
                    command, original_key_type)
      [] OTHER ->
           IndexErr(w, "-WRONGTYPE Operation against a key holding the wrong kind of value")

execute_index_command(w, command, original_key_type, checks) ==
    CASE command.action = "EXISTS" -> execute_exists(w, command, original_key_type)
      [] command.action = "DEL" -> execute_del(w, command, original_key_type)
      [] command.action = "RENAME" ->
           IF original_key_type = "Undefined"
           THEN IndexErr(w, "-no such key")
           ELSE rename_after_delete(
                    internal_execute_command(
                        w, build_index_command(<<"DEL", command.params[1]>>).cmd,
                        checks),
                    command, original_key_type)
      [] OTHER ->
           IndexErr(w, "-WRONGTYPE Operation against a key holding the wrong kind of value")

\* StringExecutor::execute_string_command(&databases.string, ..): the string
\* store's execute_command on the store held by Databases.
from_string_store(w, r) ==
    [kind |-> r.kind, err |-> r.err, w |-> World(w.index, r.data, w.lists),
     cmd |-> r.cmd]

execute_string_command(w, command, checks) ==
    from_string_store(w, StringExecutor_execute_command(w.strings, command, checks))

\* The routed execution of internal_execute_command (the match on the
\* command type).
route_command(w, execution_context, key_type, checks) ==
    CASE execution_context.command_type = "UnknownCommand" ->
           IndexOk(w, DefaultCompleted)
      [] execution_context.command_type = "StringCommand" ->
           execute_string_command(w, execution_context, checks)
      [] execution_context.command_type = "IndexCommand" ->
           execute_index_command(w, execution_context, key_type, checks)

\* The end of internal_execute_command: `command_result?`, then the impact
\* of the completed command on the type map.
complete_command(command_result, target) ==
    IF command_result.kind # "ok" THEN command_result
    ELSE IndexOk(World(apply_impact(command_result.w.index, command_result.cmd,
                                    target),
                       command_result.w.strings, command_result.w.lists),
                 command_result.cmd)

\* The check that opens internal_execute_command: the key has a type and
\* the command is for another one.
type_mismatch(idx, execution_context) ==
    /\ execution_context.target \in DOMAIN idx
    /\ execution_context.key_type # "Index"
    /\ idx[execution_context.target] # execution_context.key_type

internal_execute_command(w, execution_context, checks) ==
    IF type_mismatch(w.index, execution_context)
    THEN IndexErr(w, "Key already exists with different type")
    ELSE complete_command(
             route_command(w, execution_context,
                           lookup_key_type(w.index, execution_context.target),
                           checks),
             execution_context.target)

\* The command identification that opens Index::execute_command.
identify(request_argv) ==
    IF StringExecutor_is_command_supported(request_argv[1])
    THEN StringExecutor_build_command(request_argv)
    ELSE IF Index_is_index_command(request_argv[1])
    THEN build_index_command(request_argv)
    ELSE BuildErr("Unknown Command")

\* What a call of execute_command hands back: Ok(bytes), Err(message), or a
\* panic of the calling thread.
Reply(bytes) == [kind |-> "ok", bytes |-> bytes]
Error(msg) == [kind |-> "err", bytes |-> msg]
Panic == [kind |-> "panic", bytes |-> ""]

\* Index::execute_command on the maps w, with the mutex poisoned or not.
\* Yields the maps and the poison flag after the call and its result.
Returned(w, poison, res) == [w |-> w, poisoned |-> poison, result |-> res]

\* The block of execute_command that holds the lock: what the caller gets
\* from the result r of internal_execute_command.  A panic unwinds through
\* the guard and poisons the mutex.
unlock_and_return(r) ==
    CASE r.kind = "ok" -> Returned(r.w, FALSE, Reply(r.cmd.response))
      [] r.kind = "err" -> Returned(r.w, FALSE, Error(r.err))
      [] r.kind = "panic" -> Returned(r.w, TRUE, Panic)

\* execute_command that takes the lock before it looks at the built command.
lock_and_execute_locks_first(w, poison, execution_context, checks) ==
    IF poison
    THEN Returned(w, TRUE, Panic)
    ELSE IF ~execution_context.ok
    THEN Returned(w, poison, Error(execution_context.err))
    ELSE unlock_and_return(internal_execute_command(w, execution_context.cmd, checks))

\* execute_command from the lock on, for a command that was built.
lock_and_execute(w, poison, execution_context, checks) ==
    IF ~execution_context.ok
    THEN Returned(w, poison, Error(execution_context.err))
    ELSE IF poison
    THEN Returned(w, TRUE, Panic)
    ELSE unlock_and_return(internal_execute_command(w, execution_context.cmd, checks))

execute_command(w, poison, request_argv, checks) ==
    lock_and_execute(w, poison, identify(request_argv), checks)

-----------------------------------------------------------------------------
(* The server as seen by its clients: one request at a time *)

\* Arguments the clients pass as values and amounts.
Args == {"v", to_string(MaxI64), to_string(MinI64)}

Workers == {"w1", "w2"}

\* A worker outside execute_command.
Idle == [pc |-> "idle", ctx |-> NoCommand, key_type |-> "Undefined",
         cmd |-> DefaultCompleted]

NoResult == [kind |-> "none", bytes |-> ""]

\* No RPUSH since the key had no list.
NoRun == [pure |-> TRUE, xs |-> <<>>]

\* No request has been tokenized yet.
NothingIdentified == Failure("")

\* No bytes have been composed yet.
NothingSent == [kind |-> "nothing"]

Snapshot == [index |-> index, strings |-> strings, lists |-> lists,
             poisoned |-> poisoned]

\* No call of identify_command is in progress.
NotScanning == [pc |-> "idle", start |-> 0, tokens |-> <<>>, reads |-> {}]

InitServer ==
    /\ index = EmptyMap
    /\ strings = EmptyMap
    /\ lists = EmptyMap
    /\ poisoned = FALSE
    /\ overflow_checks \in BOOLEAN
    /\ request = <<>>
    /\ result = NoResult
    /\ prev = [index |-> EmptyMap, strings |-> EmptyMap, lists |-> EmptyMap,
               poisoned |-> FALSE]
    /\ M = "free"
    /\ worker = [w \in Workers |-> Idle]
    /\ rpushed = [k \in Keys |-> NoRun]
    /\ conn = [stream |-> "open", frames |-> <<>>, written |-> <<>>, after_eof |-> FALSE]
    /\ handler = [pc |-> "fill_buf", reply |-> ""]
    /\ scan = NotScanning

Init ==
    /\ InitServer
    /\ received = <<>>
    /\ identified = NothingIdentified
    /\ sent = NothingSent

\* One call of Index::execute_command, from the request to its result.
Serve(argv) ==
    \E r \in {execute_command(World(index, strings, lists), poisoned, argv,
                              overflow_checks)} :
       /\ index' = r.w.index
       /\ strings' = r.w.strings
       /\ lists' = r.w.lists
       /\ poisoned' = r.poisoned
       /\ request' = argv
       /\ result' = r.result
       /\ prev' = Snapshot
       /\ UNCHANGED <<overflow_checks, M, worker, rpushed, wire>>

Get == \E k \in Keys : Serve(<<"GET", k>>)
Set == \E k \in Keys, v \in Args : Serve(<<"SET", k, v>>)
Incr == \E k \in Keys : Serve(<<"INCR", k>>)
IncrBy == \E k \in Keys, d \in Args : Serve(<<"INCRBY", k, d>>)
Decr == \E k \in Keys : Serve(<<"DECR", k>>)
DecrBy == \E k \in Keys, d \in Args : Serve(<<"DECRBY", k, d>>)
Exists == \E k \in Keys : Serve(<<"EXISTS", k>>)
Del == \E k \in Keys : Serve(<<"DEL", k>>)
Rename == \E k \in Keys, d \in Keys : Serve(<<"RENAME", k, d>>)
ListRead == \E k \in Keys : Serve(<<"LLEN", k>>) \/ Serve(<<"LINDEX", k, "0">>)
ListPush == \E k \in Keys : Serve(<<"RPUSH", k, "v">>) \/ Serve(<<"LPUSH", k, "v">>)
ListPop == \E k \in Keys : Serve(<<"RPOP", k>>) \/ Serve(<<"LPOP", k>>)
\* A verb outside the closed set.
Unknown == Serve(<<"PING">>)

\* The number of identifiers each verb takes, the verb included.
Arity == [GET |-> 2, SET |-> 3, INCR |-> 2, INCRBY |-> 3, DECR |-> 2, DECRBY |-> 3,
          EXISTS |-> 2, DEL |-> 2, RENAME |-> 3, LLEN |-> 2, LINDEX |-> 3,
          RPUSH |-> 3, RPOP |-> 2, LPUSH |-> 3, LPOP |-> 2]

\* A request for verb of n identifiers: the key k and values as they come.
ArgvOf(verb, k, n) == SubSeq(<<verb, k, "v", "v">>, 1, n)

\* A string or index verb with too few or too many identifiers.
WrongArity ==
    \E verb \in REDIS_STRING_COMMANDS \cup REDIS_INDEX_COMMANDS, n \in 1..4 :
        /\ n # Arity[verb]
        /\ Serve(ArgvOf(verb, "a", n))

\* The verbs spelled in lower and in mixed case.
Variants == DOMAIN LowerCase \cup DOMAIN MixedCase

\* A well-formed request for a verb as spelled: on key k, with the other key
\* as the destination of a RENAME and an integer as any other argument.
VariantArgv(spelling, k) ==
    IF Arity[to_uppercase(spelling)] = 2 THEN <<spelling, k>>
    ELSE IF to_uppercase(spelling) = "RENAME"
    THEN <<spelling, k, CHOOSE d \in Keys : d # k>>
    ELSE <<spelling, k, to_string(MaxI64)>>

\* A verb in another letter case.
Variant == \E spelling \in Variants, k \in Keys : Serve(VariantArgv(spelling, k))

Next ==
    \/ Get \/ Set \/ Incr \/ IncrBy \/ Decr \/ DecrBy
    \/ Exists \/ Del \/ Rename
    \/ ListRead \/ ListPush \/ ListPop
    \/ Unknown

Spec == Init /\ [][Next]_vars

\* The same server with clients that spell the verbs in other letter cases
\* and send requests of wrong arity.
NextAnyRequest == Variant \/ WrongArity

SpecAnyRequest == Init /\ [][NextAnyRequest]_vars

-----------------------------------------------------------------------------
(* Properties of the request-level server *)

\* The maps as they are now.
Now == World(index, strings, lists)

\* What the server would answer to argv in the current state.
Answer(argv) == execute_command(Now, poisoned, argv, overflow_checks)

OK == Reply("+OK" \o CRLF)
Unchanged ==
    /\ index = prev.index
    /\ strings = prev.strings
    /\ lists = prev.lists
    /\ poisoned = prev.poisoned

\* The last request was verb on key, with n arguments in all.
Requested(verb, n) == Len(request) = n /\ to_uppercase(request[1]) = verb

\* The store that holds keys of type t.
StoreKeys(t) == CASE t = "String" -> DOMAIN strings
                  [] t = "List" -> DOMAIN lists
                  [] OTHER -> {}

\* C1: after any sequence of commands through execute_command on an empty
\* server, a key is in the Index iff exactly one typed store contains it,
\* and the Index tags it with the type of that store.
C1_IndexConsistent ==
    \A k \in Keys :
        /\ (k \in DOMAIN index) <=> ((k \in DOMAIN strings) # (k \in DOMAIN lists))
        /\ ~(k \in DOMAIN strings /\ k \in DOMAIN lists)
        /\ k \in DOMAIN index => k \in StoreKeys(index[k])

\* A RENAME onto an existing key succeeded and the new name is indexed.
C1_Witness ==
    /\ Requested("RENAME", 3)
    /\ result = OK
    /\ request[2] # request[3]
    /\ request[3] \in DOMAIN prev.index
    /\ request[3] \in DOMAIN index
    /\ request[2] \notin DOMAIN index

\* The last request was a typed command for a key the Index tags with
\* another type than the command's.
TypedVerbType(verb) == IF verb \in REDIS_STRING_COMMANDS THEN "String"
                       ELSE IF verb \in REDIS_LIST_COMMANDS THEN "List"
                       ELSE "Index"

WrongTypeRequest ==
    /\ Len(request) >= 2
    /\ TypedVerbType(to_uppercase(request[1])) \in {"String", "List"}
    /\ request[2] \in DOMAIN prev.index
    /\ prev.index[request[2]] # TypedVerbType(to_uppercase(request[1]))
    /\ ~prev.poisoned

\* C2: a typed command on a key whose Index tag differs from the command's
\* type (SET a v, then LPUSH a x) fails with 'Key already exists with
\* different type' and leaves the Index and every store as they were.
C2_WrongTypeRejected ==
    WrongTypeRequest =>
        /\ result = Error("Key already exists with different type")
        /\ Unchanged

\* C4 as stated: for every existing a and every destination b, a successful
\* RENAME a b replies +OK; then EXISTS a replies :0, EXISTS b replies :1, the
\* store has no a and b holds the value a had.
RenameMoved(a, b) ==
    /\ result = OK
    /\ Answer(<<"EXISTS", a>>).result = Reply(":0" \o CRLF)
    /\ Answer(<<"EXISTS", b>>).result = Reply(":1" \o CRLF)
    /\ a \notin DOMAIN strings
    /\ b \in DOMAIN strings
    /\ strings[b] = prev.strings[a]

SuccessfulRename ==
    /\ Requested("RENAME", 3)
    /\ request[2] \in DOMAIN prev.index
    /\ result.kind = "ok"

C4_RenameAnyDestination ==
    SuccessfulRename => RenameMoved(request[2], request[3])

\* C4, amended: the same for every destination b other than a.
C4_RenameMoves ==
    (SuccessfulRename /\ request[2] # request[3]) =>
        RenameMoved(request[2], request[3])

C4_Witness ==
    /\ SuccessfulRename
    /\ request[2] # request[3]
    /\ request[3] \notin DOMAIN prev.index

\* C5: when a and b both exist as strings, RENAME a b discards the value of
\* b: GET b replies the value a had, the Index and the string store contain
\* b and neither contains a.
C5_RenameOverwrites ==
    ( /\ Requested("RENAME", 3)
      /\ request[2] # request[3]
      /\ {request[2], request[3]} \subseteq DOMAIN prev.strings
      /\ ~prev.poisoned ) =>
        /\ result = OK
        /\ Answer(<<"GET", request[3]>>).result
               = Reply("+" \o prev.strings[request[2]] \o CRLF)
        /\ request[3] \in DOMAIN index /\ request[3] \in DOMAIN strings
        /\ request[2] \notin DOMAIN index /\ request[2] \notin DOMAIN strings

C5_Witness ==
    /\ Requested("RENAME", 3)
    /\ request[2] # request[3]
    /\ {request[2], request[3]} \subseteq DOMAIN prev.strings
    /\ prev.strings[request[2]] # prev.strings[request[3]]
    /\ result = OK

\* C6: RENAME src dst with src not in the Index fails with '-no such key'
\* and leaves the Index and the stores unchanged; an existing dst stays.
C6_RenameMissingSource ==
    ( /\ Requested("RENAME", 3)
      /\ request[2] \notin DOMAIN prev.index
      /\ ~prev.poisoned ) =>
        /\ result = Error("-no such key")
        /\ Unchanged

C6_Witness ==
    /\ Requested("RENAME", 3)
    /\ request[2] \notin DOMAIN prev.index
    /\ request[3] \in DOMAIN prev.index
    /\ request[3] \in DOMAIN strings
    /\ result.kind = "err"

\* C7: DEL k on a key that exists replies :n, n being the count the owning
\* store's delete returns; with n > 0 the key leaves the Index and the store
\* together, so that EXISTS k then replies :0 and GET k replies +(nil).
C7_DelExisting ==
    ( /\ Requested("DEL", 2)
      /\ request[2] \in DOMAIN prev.index
      /\ ~prev.poisoned ) =>
        LET n == IF request[2] \in DOMAIN prev.strings THEN 1 ELSE 0 IN
        /\ result = Reply(":" \o to_string(n) \o CRLF)
        /\ n > 0 =>
             /\ request[2] \notin DOMAIN index
             /\ request[2] \notin DOMAIN strings
             /\ Answer(<<"EXISTS", request[2]>>).result = Reply(":0" \o CRLF)
             /\ Answer(<<"GET", request[2]>>).result = Reply("+(nil)" \o CRLF)

C7_Witness ==
    /\ Requested("DEL", 2)
    /\ request[2] \in DOMAIN prev.index
    /\ result = Reply(":1" \o CRLF)
    /\ index # EmptyMap

\* C8: DEL k on a key that is not in the Index replies :0 and changes
\* neither the Index nor any store, whatever other keys exist.
C8_DelMissing ==
    ( /\ Requested("DEL", 2)
      /\ request[2] \notin DOMAIN prev.index
      /\ ~prev.poisoned ) =>
        /\ result = Reply(":0" \o CRLF)
        /\ Unchanged

C8_Witness ==
    /\ Requested("DEL", 2)
    /\ request[2] \notin DOMAIN prev.index
    /\ prev.index # EmptyMap
    /\ result.kind = "ok"

\* The last request was a push of "v" on a key without entry, on a server
\* whose mutex is usable.
PushedOnFreshKey ==
    /\ Len(request) = 3
    /\ to_uppercase(request[1]) \in {"RPUSH", "LPUSH"}
    /\ request[2] \notin DOMAIN prev.index
    /\ ~prev.poisoned

\* C9: DEL acts on a key of any type: on a key that a push made a List, DEL
\* replies :1 and removes the key from the ListStore and from the Index.
C9_DelList ==
    PushedOnFreshKey =>
        LET del == Answer(<<"DEL", request[2]>>) IN
        /\ request[2] \in DOMAIN index /\ index[request[2]] = "List"
        /\ del.result = Reply(":1" \o CRLF)
        /\ request[2] \notin DOMAIN del.w.index
        /\ request[2] \notin DOMAIN del.w.lists

\* C10: RENAME of a List source moves its value in the ListStore: after a
\* push made src a List, RENAME src dst succeeds, dst is in the ListStore
\* alone with the value of src, and the Index tags dst as List.
C10_RenameList ==
    PushedOnFreshKey =>
        \A dst \in Keys \ {request[2]} :
            LET ren == Answer(<<"RENAME", request[2], dst>>) IN
            /\ ren.result = OK
            /\ dst \in DOMAIN ren.w.lists
            /\ ren.w.lists[dst] = <<request[3]>>
            /\ dst \notin DOMAIN ren.w.strings
            /\ request[2] \notin DOMAIN ren.w.lists
            /\ dst \in DOMAIN ren.w.index /\ ren.w.index[dst] = "List"

\* The text is the decimal of an integer of the i64 range.
IsDecimal(s) == \E n \in MinI64..MaxI64 : s = to_string(n)

\* The integer a decimal text stands for.
ValueOf(s) == CHOOSE n \in MinI64..MaxI64 : s = to_string(n)

\* The last request was an arithmetic command on a server whose mutex is
\* usable.
ArithmeticRequest ==
    /\ \/ Requested("INCR", 2) \/ Requested("DECR", 2)
       \/ Requested("INCRBY", 3) \/ Requested("DECRBY", 3)
    /\ ~prev.poisoned

\* The amount argument of the last request is a decimal integer (INCR and
\* DECR have none).
DecimalAmount == Len(request) = 3 => IsDecimal(request[3])

\* The amount the last arithmetic request asks to add.
Amount == CASE Requested("INCR", 2) -> 1
            [] Requested("DECR", 2) -> -1
            [] Requested("INCRBY", 3) -> ValueOf(request[3])
            [] Requested("DECRBY", 3) -> -ValueOf(request[3])

\* The integer the key of the last request held before it, 0 when absent.
OldValue == IF request[2] \in DOMAIN prev.strings
            THEN ValueOf(prev.strings[request[2]]) ELSE 0

InRange(n) == MinI64 <= n /\ n <= MaxI64

\* C11: SET k v replies +OK and a GET k that follows at once replies +v,
\* whatever k held before (a later SET overwrites); the same holds of the
\* string store called directly, for every key and value.
C11_SetThenGet ==
    /\ (Requested("SET", 3) /\ ~prev.poisoned) =>
          /\ result = OK
          /\ Answer(<<"GET", request[2]>>).result = Reply("+" \o request[3] \o CRLF)
    /\ \A k \in Keys, v \in Args :
          \E set \in {StringExecutor_execute_command(
                          strings, StringExecutor_build_command(<<"SET", k, v>>).cmd,
                          overflow_checks)} :
             /\ set.kind = "ok"
             /\ set.cmd.response = "+OK" \o CRLF
             /\ StringExecutor_execute_command(
                    set.data, StringExecutor_build_command(<<"GET", k>>).cmd,
                    overflow_checks).cmd.response = "+" \o v \o CRLF

\* A SET replaced a different value of its key.
C11_Witness ==
    /\ Requested("SET", 3)
    /\ request[2] \in DOMAIN prev.strings
    /\ prev.strings[request[2]] # request[3]
    /\ result = OK
    /\ strings[request[2]] = request[3]

\* C12: INCR, INCRBY d, DECR and DECRBY d take an absent key for 0 and a
\* present key for its integer x; when the amount and the sum are in the i64
\* range they store and reply the decimal of x+1, x+d, x-1, x-d, and the key
\* is in the Index as String afterwards.
C12_Arithmetic ==
    ( /\ ArithmeticRequest
      /\ DecimalAmount
      /\ request[2] \in DOMAIN prev.strings => IsDecimal(prev.strings[request[2]])
      /\ InRange(Amount)
      /\ InRange(OldValue + Amount) ) =>
        /\ result = Reply("+" \o to_string(OldValue + Amount) \o CRLF)
        /\ request[2] \in DOMAIN strings
        /\ strings[request[2]] = to_string(OldValue + Amount)
        /\ request[2] \in DOMAIN index
        /\ index[request[2]] = "String"

\* An INCRBY or DECRBY changed the integer of a key that had one.
C12_Witness ==
    /\ Requested("INCRBY", 3) \/ Requested("DECRBY", 3)
    /\ request[2] \in DOMAIN prev.strings
    /\ result.kind = "ok"
    /\ strings[request[2]] # prev.strings[request[2]]
    /\ OldValue # 0

\* An INCR created its key.
C12_WitnessAbsent ==
    /\ Requested("INCR", 2)
    /\ request[2] \notin DOMAIN prev.index
    /\ result = Reply("+1" \o CRLF)

\* C13: an arithmetic command on a key whose value is not a decimal integer
\* fails with the error 'value is not an integer or out of range' and
\* changes neither the stored value nor the Index.
C13_NotAnInteger ==
    ( /\ ArithmeticRequest
      /\ DecimalAmount
      /\ Requested("DECRBY", 3) => (InRange(Amount) \/ ~overflow_checks)
      /\ request[2] \in DOMAIN prev.strings
      /\ ~IsDecimal(prev.strings[request[2]]) ) =>
        /\ result = Error("-ERR " \o "value is not an integer or out of range")
        /\ Unchanged

C13_Witness ==
    /\ ArithmeticRequest
    /\ request[2] \in DOMAIN prev.strings
    /\ prev.strings[request[2]] = "v"
    /\ result.kind = "err"

\* C14: arithmetic never silently wraps: when the negated DECRBY amount or
\* the sum of the old value and the amount is outside the i64 range, the
\* command returns an error and the stored value is unchanged.
C14_NoSilentWrap ==
    ( /\ ArithmeticRequest
      /\ DecimalAmount
      /\ request[2] \in DOMAIN prev.strings
      /\ IsDecimal(prev.strings[request[2]])
      /\ ~InRange(Amount) \/ ~InRange(OldValue + Amount) ) =>
        /\ result.kind = "err"
        /\ strings = prev.strings

\* C16: a pop that removes the last element of a list removes the ListStore
\* entry and the Index entry together: after RPUSH k x the key is a List of
\* the Index, LPOP k replies +x, and then EXISTS k and LLEN k reply :0.
C16_PopCleansUp ==
    PushedOnFreshKey =>
        \E pop \in {Answer(<<"LPOP", request[2]>>)} :
           /\ request[2] \in DOMAIN index /\ index[request[2]] = "List"
           /\ pop.result = Reply("+" \o request[3] \o CRLF)
           /\ request[2] \notin DOMAIN pop.w.lists
           /\ request[2] \notin DOMAIN pop.w.index
           /\ execute_command(pop.w, pop.poisoned, <<"EXISTS", request[2]>>,
                              overflow_checks).result = Reply(":0" \o CRLF)
           /\ execute_command(pop.w, pop.poisoned, <<"LLEN", request[2]>>,
                              overflow_checks).result = Reply(":0" \o CRLF)

\* C21: dispatch routes every verb of the closed set to its owner: a list
\* verb is answered by the ListStore, a String verb and an Index verb are not
\* unknown, and any other verb fails with 'Unknown Command' and changes
\* nothing.
C21_DispatchRoutes ==
    (Len(request) >= 1 /\ ~prev.poisoned) =>
        LET verb == to_uppercase(request[1]) IN
        /\ verb \in REDIS_LIST_COMMANDS =>
              \E built \in {ListExecutor_build_command(request)} :
                 built.ok =>
                    \E r \in {ListExecutor_execute_command(prev.lists, built.cmd)} :
                       r.kind = "ok" =>
                          /\ result = Reply(r.cmd.response)
                          /\ lists = r.data
        /\ verb \in REDIS_STRING_COMMANDS \cup REDIS_INDEX_COMMANDS =>
              result # Error("Unknown Command")
        /\ verb \notin REDIS_STRING_COMMANDS \cup REDIS_LIST_COMMANDS
                        \cup REDIS_INDEX_COMMANDS =>
              /\ result = Error("Unknown Command")
              /\ Unchanged

\* A verb outside the closed set is rejected and nothing changes.
UnknownVerbRejected ==
    Requested("PING", 1) => (result = Error("Unknown Command") /\ Unchanged)

\* C25: EXISTS k replies :1 exactly when k is in the Index, whatever its
\* type, and :0 otherwise, in every reachable state.
C25_ExistsIffIndexed ==
    ~poisoned =>
        \A k \in Keys :
            /\ Answer(<<"EXISTS", k>>).result =
                  Reply(IF k \in DOMAIN index THEN ":1" \o CRLF ELSE ":0" \o CRLF)
            /\ \A t \in {"String", "List"} :
                  execute_command(World(MapPut(index, k, t), strings, lists), FALSE,
                                  <<"EXISTS", k>>, overflow_checks).result
                     = Reply(":1" \o CRLF)
            /\ execute_command(World(MapDel(index, k), strings, lists), FALSE,
                               <<"EXISTS", k>>, overflow_checks).result
                  = Reply(":0" \o CRLF)

\* EXISTS was asked of a key that is indexed and of one that is not.
C25_Witness ==
    /\ Requested("EXISTS", 2)
    /\ request[2] \notin DOMAIN index
    /\ index # EmptyMap
    /\ result = Reply(":0" \o CRLF)

\* C26: the read-only commands GET, LLEN, LINDEX and EXISTS change neither
\* the Index nor a store, whether the key exists or not; GET on an absent
\* key replies +(nil) and does not add the key to the Index.
C26_ReadsChangeNothing ==
    /\ ( \/ Requested("GET", 2) \/ Requested("EXISTS", 2)
         \/ Requested("LLEN", 2) \/ Requested("LINDEX", 3) ) => Unchanged
    /\ ( /\ Requested("GET", 2)
         /\ request[2] \notin DOMAIN prev.index
         /\ ~prev.poisoned ) =>
          /\ result = Reply("+(nil)" \o CRLF)
          /\ request[2] \notin DOMAIN index

\* A GET of an absent key while another key exists.
C26_Witness ==
    /\ Requested("GET", 2)
    /\ request[2] \notin DOMAIN prev.index
    /\ prev.index # EmptyMap
    /\ result = Reply("+(nil)" \o CRLF)

\* C27: every dispatched command ends with a reply or an error value and
\* leaves the Index mutex usable for later requests.
C27_RunsToCompletion ==
    /\ result.kind # "panic"
    /\ ~poisoned

\* The last request was RENAME k k on a key the Index and the string store
\* held, with the mutex usable.
RenamedOntoItself ==
    /\ Requested("RENAME", 3)
    /\ request[2] = request[3]
    /\ request[2] \in DOMAIN prev.index
    /\ request[2] \in DOMAIN prev.strings
    /\ ~prev.poisoned

\* C37: RENAME k k on an existing key loses no data: afterwards k is still in
\* the Index and in its store with the value it had before.
C37_RenameOntoItselfKeeps ==
    RenamedOntoItself =>
        /\ request[2] \in DOMAIN index
        /\ request[2] \in DOMAIN strings
        /\ strings[request[2]] = prev.strings[request[2]]

\* RENAME k k replies +OK and leaves k neither in the Index nor in the store.
RenameOntoItselfDeletes ==
    RenamedOntoItself =>
        /\ result = OK
        /\ request[2] \notin DOMAIN index
        /\ request[2] \notin DOMAIN strings

\* The last request named a verb of a store or of the Index with the wrong
\* number of identifiers.
ArityViolated ==
    /\ request # <<>>
    /\ to_uppercase(request[1]) \in DOMAIN Arity
    /\ Len(request) # Arity[to_uppercase(request[1])]

\* C31: a build rejects an argv with the wrong number of arguments for its
\* verb with an error; the rejected request touches no store and no Index
\* state, and is rejected before the Index mutex is taken: also when the mutex
\* is poisoned the caller gets the error, not the panic of lock().  The list
\* store's build rejects the same way.
C31_RejectedBuild ==
    /\ ArityViolated =>
           /\ result.kind = "err"
           /\ Unchanged
    /\ \A verb \in REDIS_STRING_COMMANDS, n \in 1..4 :
           n # Arity[verb] => ~StringExecutor_build_command(ArgvOf(verb, "a", n)).ok
    /\ \A verb \in REDIS_INDEX_COMMANDS, n \in 1..4 :
           n # Arity[verb] => ~build_index_command(ArgvOf(verb, "a", n)).ok
    /\ \A verb \in REDIS_LIST_COMMANDS, n \in 1..4 :
           n # Arity[verb] => ~ListExecutor_build_command(ArgvOf(verb, "a", n)).ok

\* A request of wrong arity was rejected while the mutex was poisoned.
C31_Witness ==
    /\ ArityViolated
    /\ prev.poisoned
    /\ prev.strings # EmptyMap
    /\ result.kind = "err"

\* What the server, as it was before the last request, answers to that
\* request with its verb in upper case.
UpperCaseAnswer ==
    execute_command(World(prev.index, prev.strings, prev.lists), prev.poisoned,
                    [request EXCEPT ![1] = to_uppercase(@)], overflow_checks)

VariantRequested == request # <<>> /\ request[1] \in Variants

\* C32: verbs are matched case-insensitively: a request whose verb is spelled
\* in lower or mixed case gets the reply, and leaves the Index and the stores
\* in the state, that the same request with the upper-case verb gets and
\* leaves.  The list store supports and builds each spelling as the upper-case
\* verb.
C32_CaseInsensitive ==
    /\ VariantRequested =>
           /\ result = UpperCaseAnswer.result
           /\ Now = UpperCaseAnswer.w
           /\ poisoned = UpperCaseAnswer.poisoned
    /\ \A spelling \in Variants :
           (VariantRequested /\ to_uppercase(spelling) \in REDIS_LIST_COMMANDS) =>
              /\ ListExecutor_is_command_supported(spelling)
              /\ ListExecutor_build_command(VariantArgv(spelling, "a"))
                   = ListExecutor_build_command(VariantArgv(to_uppercase(spelling), "a"))
              /\ ListExecutor_build_command(VariantArgv(spelling, "a")).ok

\* A SET spelled in mixed case has stored its value, and an EXISTS spelled in
\* lower case has found a key.
C32_Witness ==
    /\ VariantRequested
    /\ request[1] \in DOMAIN MixedCase
    /\ to_uppercase(request[1]) = "SET"
    /\ result = OK
    /\ strings # prev.strings

-----------------------------------------------------------------------------
(* The server as its workers run it: execute_command step by step *)

\* The requests the workers of this model receive.
WorkerRequests ==
    {<<"SET", k, v>> : k \in Keys, v \in {"v", "1"}}
    \cup {<<verb, k>> : verb \in {"GET", "EXISTS", "DEL"}, k \in Keys}
    \cup {<<"RENAME", k, d>> : k \in Keys, d \in Keys}
    \cup {<<"INCRBY", k, "v">> : k \in Keys}
    \cup {<<"RPUSH", k, "v">> : k \in Keys}

\* Mutex::lock returns to one thread at a time.
can_lock_unguarded(m) == TRUE

can_lock(m) == m = "free"

At(w, pc) == worker[w].pc = pc

Goto(w, pc) == worker' = [worker EXCEPT ![w].pc = pc]

Frame == UNCHANGED <<overflow_checks, request, result, prev, rpushed, wire>>

\* The command is identified and built before the lock is taken; a request
\* that cannot be built returns its error at once.
Begin(w) ==
    /\ At(w, "idle")
    /\ \E argv \in WorkerRequests :
          \E built \in {identify(argv)} :
             worker' = [worker EXCEPT ![w] =
                           IF built.ok
                           THEN [Idle EXCEPT !.pc = "lock", !.ctx = built.cmd]
                           ELSE Idle]
    /\ UNCHANGED <<index, strings, lists, poisoned, M>>
    /\ Frame

\* self.shared.entries.lock().unwrap(): waits for the mutex; panics when it
\* is poisoned.
Lock(w) ==
    /\ At(w, "lock")
    /\ can_lock(M)
    /\ IF poisoned
       THEN /\ worker' = [worker EXCEPT ![w] = Idle]
            /\ UNCHANGED M
       ELSE /\ Goto(w, "check")
            /\ M' = w
    /\ UNCHANGED <<index, strings, lists, poisoned>>
    /\ Frame

\* The type check that opens internal_execute_command.
Check(w) ==
    /\ At(w, "check")
    /\ IF type_mismatch(index, worker[w].ctx)
       THEN Goto(w, "unlock")
       ELSE worker' = [worker EXCEPT
                          ![w].pc = "route",
                          ![w].key_type = lookup_key_type(index, worker[w].ctx.target)]
    /\ UNCHANGED <<index, strings, lists, poisoned, M>>
    /\ Frame

\* A panic of the holder unwinds through the guard: the mutex is released
\* and poisoned, and the worker's call is over.
Unwind(w) ==
    /\ worker' = [worker EXCEPT ![w] = Idle]
    /\ M' = "free"
    /\ poisoned' = TRUE

\* The routed execution up to the store's change: a string command or
\* EXISTS / DEL in one call of the store, RENAME up to its nested DEL.
Route(w) ==
    /\ At(w, "route")
    /\ LET ctx == worker[w].ctx
           nested == ctx.command_type = "IndexCommand" /\ ctx.action = "RENAME"
                     /\ worker[w].key_type # "Undefined"
       IN IF nested
          THEN /\ Goto(w, "rename_del")
               /\ UNCHANGED <<strings, M, poisoned>>
          ELSE \E r \in {route_command(Now, ctx, worker[w].key_type, overflow_checks)} :
                  /\ strings' = r.w.strings
                  /\ CASE r.kind = "ok" ->
                            /\ worker' = [worker EXCEPT ![w].pc = "impact",
                                                        ![w].cmd = r.cmd]
                            /\ UNCHANGED <<M, poisoned>>
                       [] r.kind = "err" ->
                            /\ Goto(w, "unlock")
                            /\ UNCHANGED <<M, poisoned>>
                       [] r.kind = "panic" -> Unwind(w)
    /\ UNCHANGED <<index, lists>>
    /\ Frame

\* A nested DEL that takes the mutex again through the public entry point.
RenameDelete_relocks(w) ==
    /\ At(w, "rename_del")
    /\ can_lock(M)
    /\ \E del \in {build_index_command(<<"DEL", worker[w].ctx.params[1]>>).cmd} :
          \E r \in {execute_del(Now, del, lookup_key_type(index, del.target))} :
             /\ strings' = r.w.strings
             /\ worker' = [worker EXCEPT ![w].pc = "rename_del_impact",
                                         ![w].cmd = r.cmd]
    /\ UNCHANGED <<index, lists, poisoned, M>>
    /\ Frame

\* The nested DEL of RENAME: the store's delete of the destination.
RenameDelete(w) ==
    /\ At(w, "rename_del")
    /\ \E del \in {build_index_command(<<"DEL", worker[w].ctx.params[1]>>).cmd} :
          \E r \in {execute_del(Now, del, lookup_key_type(index, del.target))} :
             /\ strings' = r.w.strings
             /\ worker' = [worker EXCEPT ![w].pc = "rename_del_impact",
                                         ![w].cmd = r.cmd]
    /\ UNCHANGED <<index, lists, poisoned, M>>
    /\ Frame

\* The nested DEL of RENAME: its impact on the type map.
RenameDeleteImpact(w) ==
    /\ At(w, "rename_del_impact")
    /\ index' = apply_impact(index, worker[w].cmd, worker[w].ctx.params[1])
    /\ Goto(w, "rename_store")
    /\ UNCHANGED <<strings, lists, poisoned, M>>
    /\ Frame

\* RENAME: the store renames the source.
RenameStore(w) ==
    /\ At(w, "rename_store")
    /\ \E r \in {rename_in_store(Now, worker[w].ctx, worker[w].key_type)} :
          /\ strings' = r.w.strings
          /\ worker' = [worker EXCEPT ![w].pc = "impact", ![w].cmd = r.cmd]
    /\ UNCHANGED <<index, lists, poisoned, M>>
    /\ Frame

\* The impact of the completed command on the type map.
Impact(w) ==
    /\ At(w, "impact")
    /\ index' = apply_impact(index, worker[w].cmd, worker[w].ctx.target)
    /\ Goto(w, "unlock")
    /\ UNCHANGED <<strings, lists, poisoned, M>>
    /\ Frame

\* The guard is dropped at the end of the block and the call returns.
Unlock(w) ==
    /\ At(w, "unlock")
    /\ M' = "free"
    /\ worker' = [worker EXCEPT ![w] = Idle]
    /\ UNCHANGED <<index, strings, lists, poisoned>>
    /\ Frame

NextWorkers ==
    \E w \in Workers :
        \/ Begin(w) \/ Lock(w) \/ Check(w) \/ Route(w)
        \/ RenameDelete(w) \/ RenameDeleteImpact(w) \/ RenameStore(w)
        \/ Impact(w) \/ Unlock(w)

SpecWorkers == Init /\ [][NextWorkers]_vars

\* The steps of a worker that holds the mutex.
Holding(w) ==
    \/ Check(w) \/ Route(w)
    \/ RenameDelete(w) \/ RenameDeleteImpact(w) \/ RenameStore(w)
    \/ Impact(w) \/ Unlock(w)

\* A thread that runs keeps running, and a thread blocked in lock() gets the
\* mutex when it is released often enough.
SpecWorkersFair ==
    /\ SpecWorkers
    /\ \A w \in Workers : WF_vars(Holding(w)) /\ SF_vars(Lock(w))

\* The worker reads the type map or a store for its command.
Observing(w) == worker[w].pc \in {"check", "route"}

\* The worker is between taking the mutex and dropping it.
InCriticalSection(w) == worker[w].pc \notin {"idle", "lock"}

\* C3: command execution is serialised by the Index mutex: at most one
\* worker is inside the critical section, and whenever the mutex is free or a
\* command starts reading, every key is in the Index iff it is in its store.
C3_Serialised ==
    /\ \A w \in Workers : InCriticalSection(w) => M = w
    /\ M = "free" => C1_IndexConsistent
    /\ \A w \in Workers : Observing(w) => C1_IndexConsistent

\* A worker waits for the mutex while the holder has changed a store and not
\* yet the Index.
C3_Witness ==
    \E w \in Workers, o \in Workers :
        /\ w # o
        /\ M = w
        /\ ~C1_IndexConsistent
        /\ worker[o].pc = "lock"

\* C33: a key's type tag is immutable once set: no step changes the tag of a
\* key that stays in the Index, so between two states with different tags for
\* k there is a step that removed k from the Index.
C33_TagImmutable ==
    [][\A k \in Keys :
          (k \in DOMAIN index /\ k \in DOMAIN index') => index'[k] = index[k]]_vars

\* A SET has completed on a key that is in the Index; a RENAME has moved the
\* value and is about to tag its destination, which is not in the Index.
C33_Witness ==
    \E w \in Workers :
        /\ worker[w].pc = "unlock"
        /\ worker[w].ctx.action = "SET"
        /\ worker[w].ctx.target \in DOMAIN index
        /\ worker[w].cmd.response = "+OK" \o CRLF

C33_WitnessRename ==
    \E w \in Workers :
        /\ worker[w].pc = "impact"
        /\ worker[w].ctx.action = "RENAME"
        /\ worker[w].cmd.key_name # worker[w].ctx.target
        /\ worker[w].cmd.key_name \notin DOMAIN index
        /\ worker[w].cmd.key_name \in DOMAIN strings

\* Worker w's SET is executed by the store in this step.
SetExecuted(w) ==
    /\ worker[w].pc = "route"
    /\ worker'[w].pc = "impact"
    /\ worker[w].ctx.action = "SET"

\* C34: the outcome of SET k v carries impact Add if k was absent from the
\* store before the SET and no impact if k already existed.
C34_SetImpact ==
    [][\A w \in Workers :
          SetExecuted(w) =>
             worker'[w].cmd.impact_on_index =
                IF worker[w].ctx.target \in DOMAIN strings THEN "NoImpact" ELSE "Add"]_vars

\* The outcome of every SET carries impact Add, and the Index holds the key
\* with the String tag once the impact is applied.
SetImpactIsAdd ==
    [][\A w \in Workers :
          SetExecuted(w) => worker'[w].cmd.impact_on_index = "Add"]_vars

-----------------------------------------------------------------------------
(* Every worker issues one INCR; the store's get and set are steps of their  *)
(* own, each under its own acquisition of the store's lock.                  *)

\* The worker calls execute_command with INCR k.
IncrBegin(w) ==
    /\ At(w, "idle")
    /\ \E k \in Keys :
          worker' = [worker EXCEPT ![w] =
                        [Idle EXCEPT !.pc = "lock", !.ctx = identify(<<"INCR", k>>).cmd]]
    /\ UNCHANGED <<index, strings, lists, poisoned, M>>
    /\ Frame

\* adjust_value_if_exists: self.data.get(target), the first acquisition.
IncrGet(w) ==
    /\ At(w, "route")
    /\ worker' = [worker EXCEPT ![w] =
                     [pc |-> "set", ctx |-> worker[w].ctx, key_type |-> worker[w].key_type,
                      cmd |-> worker[w].cmd,
                      value |-> IF storage_has(strings, worker[w].ctx.target)
                                THEN <<storage_get(strings, worker[w].ctx.target)>>
                                ELSE <<>>]]
    /\ UNCHANGED <<index, strings, lists, poisoned, M>>
    /\ Frame

\* The value INCR stores for what it read: the adjustment for no value, the
\* sum for an integer.  The sum of as many increments as there are workers
\* is far from the ends of i64.
Incremented(value) ==
    IF value = <<>> THEN [ok |-> TRUE, val |-> 1, impact |-> "Add"]
    ELSE IF parse_i64(value[1]).ok
    THEN [ok |-> TRUE, val |-> parse_i64(value[1]).val + 1, impact |-> "NoImpact"]
    ELSE [ok |-> FALSE, val |-> 0, impact |-> "NoImpact"]

\* adjust_value_if_exists from the match on: self.data.set(target, updated),
\* the second acquisition, and the CommandCompleted.
IncrSet(w) ==
    /\ At(w, "set")
    /\ \E new \in {Incremented(worker[w].value)} :
          IF new.ok
          THEN /\ strings' = storage_set(strings, worker[w].ctx.target, to_string(new.val))
               /\ worker' = [worker EXCEPT
                                ![w].pc = "impact",
                                ![w].cmd = CommandCompleted(
                                              worker[w].ctx.target, "String", new.impact,
                                              format_string_response(to_string(new.val)))]
          ELSE /\ Goto(w, "unlock")
               /\ UNCHANGED strings
    /\ UNCHANGED <<index, lists, poisoned, M>>
    /\ Frame

\* The guard is dropped and the reply is returned to the worker.
IncrDone(w) ==
    /\ At(w, "unlock")
    /\ M' = "free"
    /\ Goto(w, "done")
    /\ UNCHANGED <<index, strings, lists, poisoned>>
    /\ Frame

NextIncr ==
    \E w \in Workers :
        \/ IncrBegin(w) \/ Lock(w) \/ Check(w) \/ IncrGet(w) \/ IncrSet(w)
        \/ Impact(w) \/ IncrDone(w)

SpecIncr == Init /\ [][NextIncr]_vars

\* The workers whose INCR on k has gone through the store, and those whose
\* INCR on k has returned.
Stored(k) ==
    {w \in Workers : worker[w].pc \in {"impact", "unlock", "done"}
                     /\ worker[w].ctx.target = k}

Answered(k) == {w \in Workers : worker[w].pc = "done" /\ worker[w].ctx.target = k}

\* C38: no update is lost: starting from k absent, the value stored under k
\* is the number of INCR k that have gone through the store, so that when all
\* N workers have issued INCR k and returned it is N, and the replies are a
\* permutation of 1..N.
C38_NoLostUpdate ==
    \A k \in Keys :
        /\ Stored(k) = {} => k \notin DOMAIN strings
        /\ Stored(k) # {} =>
               /\ k \in DOMAIN strings
               /\ strings[k] = to_string(Cardinality(Stored(k)))
        /\ Answered(k) = Stored(k) =>
               {worker[w].cmd.response : w \in Answered(k)}
                   = {"+" \o to_string(i) \o CRLF : i \in 1..Cardinality(Answered(k))}

\* All workers have issued INCR on the same key and have their replies.
C38_Witness ==
    \E k \in Keys :
        /\ Answered(k) = Workers
        /\ strings[k] = to_string(Cardinality(Workers))

-----------------------------------------------------------------------------
(* The ListExecutor called directly, one command at a time *)

\* Longest list the clients of this model build.
MaxListLen == 2

\* Values the clients push.
ListValues == {"x", "y"}

\* Index arguments the clients pass to LINDEX.
LIndexArgs == {to_string(i) : i \in 0..MaxListLen} \cup {"-1", "x"}

\* The history of RPUSHes on the key of a command: an RPUSH extends a run, a
\* key without list starts a new one, any other write to a list ends it.
record_push(run, data, argv) ==
    LET verb == to_uppercase(argv[1]) IN
    CASE verb = "RPUSH" ->
           IF run.pure THEN [pure |-> TRUE, xs |-> Append(run.xs, argv[3])] ELSE run
      [] verb \in {"LPUSH", "RPOP", "LPOP"} ->
           IF argv[2] \in DOMAIN data THEN [pure |-> FALSE, xs |-> <<>>] ELSE NoRun
      [] OTHER -> run

\* One call of ListExecutor::execute_command with the command built from argv.
ListServe(argv) ==
    \E built \in {ListExecutor_build_command(argv)} :
       \E r \in {IF built.ok THEN ListExecutor_execute_command(lists, built.cmd)
                 ELSE ExecErr(lists, built.err)} :
          /\ lists' = r.data
          /\ request' = argv
          /\ result' = r
          /\ prev' = Snapshot
          /\ rpushed' = [rpushed EXCEPT ![argv[2]] = record_push(@, r.data, argv)]
          /\ UNCHANGED <<index, strings, poisoned, overflow_checks, M, worker, wire>>

\* The key has room for one more element.
HasRoom(k) == k \in DOMAIN lists => Len(lists[k]) < MaxListLen

LLen == \E k \in Keys : ListServe(<<"LLEN", k>>)
LIndex == \E k \in Keys, i \in LIndexArgs : ListServe(<<"LINDEX", k, i>>)
RPush == \E k \in Keys, v \in ListValues : HasRoom(k) /\ ListServe(<<"RPUSH", k, v>>)
RPop == \E k \in Keys : ListServe(<<"RPOP", k>>)
LPush == \E k \in Keys, v \in ListValues : HasRoom(k) /\ ListServe(<<"LPUSH", k, v>>)
LPop == \E k \in Keys : ListServe(<<"LPOP", k>>)

NextList == LLen \/ LIndex \/ RPush \/ RPop \/ LPush \/ LPop

SpecList == Init /\ [][NextList]_vars

\* What the ListExecutor would answer to argv in the current state.
ListAnswer(argv) ==
    ListExecutor_execute_command(lists, ListExecutor_build_command(argv).cmd)

\* The list a key holds, empty when it has none.
ListOf(data, k) == IF k \in DOMAIN data THEN data[k] ELSE <<>>

\* C15: after RPUSH k x1 .. RPUSH k xn on a key that had no list, the i-th
\* RPUSH replied :i, LLEN k replies :n, LINDEX k i replies +x(i) for
\* 0 <= i < n and the null reply for i >= n.
C15_RPushRun ==
    /\ (Requested("RPUSH", 3) /\ rpushed[request[2]].pure) =>
          /\ result.kind = "ok"
          /\ result.cmd.response =
                ":" \o to_string(Len(rpushed[request[2]].xs)) \o CRLF
    /\ \A k \in Keys :
          (rpushed[k].pure /\ rpushed[k].xs # <<>>) =>
             /\ ListAnswer(<<"LLEN", k>>).cmd.response =
                   ":" \o to_string(Len(rpushed[k].xs)) \o CRLF
             /\ \A i \in 0..(MaxListLen + 1) :
                   \E reply \in {ListAnswer(<<"LINDEX", k, to_string(i)>>)} :
                      /\ reply.kind = "ok"
                      /\ reply.cmd.response =
                            IF i < Len(rpushed[k].xs)
                            THEN "+" \o rpushed[k].xs[i + 1] \o CRLF
                            ELSE "_" \o CRLF

\* The longest run of RPUSHes on a key that had no list, of differing values.
C15_Witness ==
    /\ Requested("RPUSH", 3)
    /\ rpushed[request[2]].pure
    /\ Len(rpushed[request[2]].xs) = MaxListLen
    /\ rpushed[request[2]].xs[1] # rpushed[request[2]].xs[2]
    /\ result.kind = "ok"

\* C17: a list is a double-ended queue: RPUSH appends at the tail, LPUSH
\* prepends at the head, LPOP removes and returns the head and RPOP the
\* tail, and the other elements keep their order.
C17_Deque ==
    Len(request) >= 2 =>
        LET k == request[2]
            old == ListOf(prev.lists, k)
            new == ListOf(lists, k)
        IN /\ Requested("RPUSH", 3) => new = Append(old, request[3])
           /\ Requested("LPUSH", 3) => new = <<request[3]>> \o old
           /\ (Requested("LPOP", 2) /\ old # <<>>) =>
                 /\ result.cmd.response = "+" \o Head(old) \o CRLF
                 /\ new = Tail(old)
           /\ (Requested("RPOP", 2) /\ old # <<>>) =>
                 /\ result.cmd.response = "+" \o old[Len(old)] \o CRLF
                 /\ new = SubSeq(old, 1, Len(old) - 1)
                 /\ Len(new) = Len(old) - 1
           /\ \A o \in Keys \ {k} : ListOf(lists, o) = ListOf(prev.lists, o)

\* An LPOP took the head of a list whose head and tail differ and left the
\* rest.
C17_Witness ==
    /\ Requested("LPOP", 2)
    /\ Len(ListOf(prev.lists, request[2])) >= 2
    /\ Head(prev.lists[request[2]]) # prev.lists[request[2]][Len(prev.lists[request[2]])]
    /\ result.kind = "ok"
    /\ request[2] \in DOMAIN lists

\* C18: RPOP or LPOP on a key with no list replies the null reply, creates
\* no entry and reports no impact, so the ListStore and the Index are
\* unchanged.
C18_PopMissing ==
    ( /\ Requested("RPOP", 2) \/ Requested("LPOP", 2)
      /\ request[2] \notin DOMAIN prev.lists ) =>
        /\ result.kind = "ok"
        /\ result.cmd.response = "_" \o CRLF
        /\ result.cmd.impact_on_index = "NoImpact"
        /\ request[2] \notin DOMAIN lists
        /\ lists = prev.lists
        /\ \A idx \in {index, MapPut(index, request[2], "String")} :
              apply_impact(idx, result.cmd, request[2]) = idx

\* A pop on a key with no list while another key has one.
C18_Witness ==
    /\ Requested("RPOP", 2) \/ Requested("LPOP", 2)
    /\ request[2] \notin DOMAIN prev.lists
    /\ prev.lists # EmptyMap
    /\ result.kind = "ok"

\* C19: LINDEX k i with an index that is no signed integer yields the error
\* 'Index is not an integer or out of range', whether or not k has a list,
\* and changes no state.
C19_LIndexNotInteger ==
    ( /\ Requested("LINDEX", 3)
      /\ ~\E n \in MinIsize..MaxIsize : request[3] = to_string(n) ) =>
        /\ result.kind = "err"
        /\ result.err = "Index is not an integer or out of range"
        /\ lists = prev.lists

\* C20: LINDEX k i with a negative index is rejected with an error.
C20_NegativeIndexRejected ==
    ( /\ Requested("LINDEX", 3)
      /\ \E n \in MinIsize..(-1) : request[3] = to_string(n) ) =>
        result.kind = "err"

\* A pop that takes the last element removes the entry and reports Delete.
PopEmptiesEntry ==
    ( /\ Requested("RPOP", 2) \/ Requested("LPOP", 2)
      /\ Len(ListOf(prev.lists, request[2])) = 1 ) =>
        /\ request[2] \notin DOMAIN lists
        /\ result.cmd.impact_on_index = "Delete"

\* C39: the ListStore holds no empty list: every key it has maps to a deque
\* of at least one element.
C39_NoEmptyList == \A k \in DOMAIN lists : Len(lists[k]) >= 1

\* A pop has taken the only element of a list while another key keeps one.
C39_Witness ==
    /\ Requested("RPOP", 2) \/ Requested("LPOP", 2)
    /\ Len(ListOf(prev.lists, request[2])) = 1
    /\ request[2] \notin DOMAIN lists
    /\ DOMAIN lists # {}

\* LINDEX with an index that is no integer, on a key that has a list.
LIndexNotIntegerOnList ==
    ( /\ Requested("LINDEX", 3)
      /\ request[3] = "x"
      /\ request[2] \in DOMAIN prev.lists ) =>
        /\ result.kind = "err"
        /\ result.err = "Index is not an integer or out of range"
        /\ lists = prev.lists

ListReadsChangeNothing ==
    (Requested("LLEN", 2) \/ Requested("LINDEX", 3)) =>
        /\ lists = prev.lists
        /\ result.kind = "ok" => result.cmd.impact_on_index = "NoImpact"

-----------------------------------------------------------------------------
(* The StringExecutor called directly: its public methods on its own data *)

\* What the store's callers see of a call: the method, its key, what it
\* returned.
StoreCall(method, key, returned) ==
    [kind |-> method, key |-> key, returned |-> returned]

StringFrame == UNCHANGED <<index, lists, poisoned, overflow_checks, M, worker, rpushed, wire>>

\* execute_command with a SET built for key k and value v.
StringSet ==
    \E k \in Keys, v \in Args :
       \E r \in {StringExecutor_execute_command(
                     strings, StringExecutor_build_command(<<"SET", k, v>>).cmd,
                     overflow_checks)} :
          /\ strings' = r.data
          /\ request' = <<"SET", k, v>>
          /\ result' = StoreCall("execute_command", k, r.cmd.response)
          /\ prev' = Snapshot
          /\ StringFrame

\* delete(key)
StringDelete ==
    \E k \in Keys :
       \E r \in {StringExecutor_delete(strings, k)} :
          /\ strings' = r.data
          /\ request' = <<"delete", k>>
          /\ result' = StoreCall("delete", k, r.count)
          /\ prev' = Snapshot
          /\ StringFrame

NextStrings == StringSet \/ StringDelete

SpecStrings == Init /\ [][NextStrings]_vars

\* C35: delete(key) removes the entry if present and returns 1 if and only if
\* the key was present before the call; it returns 0 and changes nothing when
\* the key was absent.
C35_DeleteCounts ==
    result.kind = "delete" =>
        /\ result.key \notin DOMAIN strings
        /\ \A k \in DOMAIN prev.strings \ {result.key} :
               k \in DOMAIN strings /\ strings[k] = prev.strings[k]
        /\ result.returned = IF result.key \in DOMAIN prev.strings THEN 1 ELSE 0

\* delete removes the entry of its key, leaves every other entry alone and
\* returns 1, whether or not the key was present.
DeleteRemovesAndReturnsOne ==
    result.kind = "delete" =>
        /\ result.key \notin DOMAIN strings
        /\ \A k \in DOMAIN prev.strings \ {result.key} :
               k \in DOMAIN strings /\ strings[k] = prev.strings[k]
        /\ DOMAIN strings \subseteq DOMAIN prev.strings
        /\ result.returned = 1

-----------------------------------------------------------------------------
(* The tokenizer on its own: identify_command applied to encoded frames, to  *)
(* their proper prefixes and to frames composed with defects.                *)

MaxArgs == 2
MaxArgLen == 2

\* The bytes arguments are made of; none is CR or LF.
ArgBytes == {"a", "$"}

\* An argument long enough for its length to take two digits.
LongArg == <<"a", "a", "a", "a", "a", "a", "a", "a", "a", "a">>

FrameArgs == UNION {[1..n -> ArgBytes] : n \in 1..MaxArgLen}

FrameArgvs == UNION {[1..n -> FrameArgs] : n \in 1..MaxArgs} \cup {<<LongArg>>}

\* The decimal digits of a natural number, as bytes.
RECURSIVE Decimal(_)
Decimal(n) == IF n < 10 THEN <<DigitChar[n + 1]>>
              ELSE Decimal(n \div 10) \o <<DigitChar[(n % 10) + 1]>>

Line(bytes) == bytes \o <<CR, LF>>

RECURSIVE EncodeFields(_)
EncodeFields(argv) ==
    IF argv = <<>> THEN <<>>
    ELSE Line(<<"$">> \o Decimal(Len(argv[1]))) \o Line(argv[1]) \o EncodeFields(Tail(argv))

\* '*n CRLF' followed by '$len CRLF bytes CRLF' for each argument.
Encode(argv) == Line(<<"*">> \o Decimal(Len(argv))) \o EncodeFields(argv)

\* The ways a frame of one or two fields is composed with defects.
Heads == {<<"*", "2">>, <<"*", "1">>, <<"x", "2">>, <<"*", "x">>, <<"*", "0">>}
SizeTokens == {<<"$", "1">>, <<"x", "1">>}
ValueTokens == {<<"a">>, <<"a", "b">>}
SecondFields == {"pair", "size_only", "none"}
Tails == {<<>>, <<"z", CR>>, <<CR, LF>>}

Compositions ==
    [head : Heads, s1 : SizeTokens, v1 : ValueTokens, second : SecondFields,
     s2 : SizeTokens, v2 : ValueTokens, tail : Tails]

Compose(c) ==
    Line(c.head) \o Line(c.s1) \o Line(c.v1)
    \o (IF c.second = "pair" THEN Line(c.s2) \o Line(c.v2)
        ELSE IF c.second = "size_only" THEN Line(c.s2) ELSE <<>>)
    \o c.tail

\* What is handed to identify_command: a frame without its last cut bytes
\* (cut = 0 is the whole frame), or a composition.
Sendable ==
    UNION {{[kind |-> "encoded", argv |-> argv, cut |-> cut] :
               cut \in 0..Len(Encode(argv))} : argv \in FrameArgvs}
    \cup {[kind |-> "composed", parts |-> c] : c \in Compositions}

BytesOf(how) ==
    IF how.kind = "encoded"
    THEN SubSeq(Encode(how.argv), 1, Len(Encode(how.argv)) - how.cut)
    ELSE Compose(how.parts)

\* The server as constructed, with the bytes of one request at hand.
InitFramer ==
    /\ InitServer
    /\ sent \in Sendable
    /\ received = BytesOf(sent)
    /\ identified = NothingIdentified

\* One call of identify_command.
Identify ==
    /\ identified = NothingIdentified
    /\ identified' = identify_command(received)
    /\ UNCHANGED <<index, strings, lists, poisoned, overflow_checks, request, result, prev,
                   M, worker, rpushed, received, sent, scan, conn, handler>>

SpecFramer == InitFramer /\ [][Identify]_vars

\* identify_command has returned for the bytes at hand.
Identified == identified # NothingIdentified

C22_WitnessLong ==
    /\ sent.kind = "encoded" /\ sent.cut = 0
    /\ sent.argv = <<LongArg>>
    /\ identified.ok

\* C23: every proper prefix of a valid frame is rejected with a ParserError and
\* never returned as an argv, including the prefix that lacks only the final
\* CRLF of the last value and the prefixes that end inside a value.
C23_PartialRejected ==
    (sent.kind = "encoded" /\ sent.cut > 0 /\ Identified) => ~identified.ok

\* The proper prefixes identify_command accepts are exactly those that lack
\* only the final CRLF; they are returned as the argv of the whole frame.
PartialAcceptedOnlyWithoutFinalCRLF ==
    (sent.kind = "encoded" /\ sent.cut > 0 /\ Identified) =>
        (identified.ok <=> sent.cut = 2)

PartialAcceptedAsWhole ==
    (sent.kind = "encoded" /\ sent.cut = 2 /\ Identified) =>
        /\ identified.ok
        /\ Len(identified.argv) = Len(sent.argv)
        /\ \A i \in 1..Len(sent.argv) : identified.argv[i] = from_utf8(sent.argv[i])

\* The rules of the framer, by number, and the errors of each.
ErrorsOfRule(rule) ==
    CASE rule = 1 -> {ParserMessages.EMPTY_REQUEST}
      [] rule = 2 -> {ParserMessages.INVALID_TOKEN_FORMAT, ParserMessages.EMPTY_TOKEN_VALUE}
      [] rule = 3 -> {ParserMessages.INVALID_REQUEST_STRUCTURE, ParserMessages.TOKEN_SIZE_NOT_A_NUMBER,
                      ParserMessages.TOKEN_SIZE_NOT_A_BYTE, ParserMessages.SIZE_CANNOT_BE_ZERO}
      [] rule = 4 -> {ParserMessages.INVALID_NO_SIZE_TOKEN}
      [] rule = 5 -> {ParserMessages.INVALID_NO_IDENTIFIER, ParserMessages.IDENTIFIER_IS_WRONG_SIZE}
      [] rule = 6 -> {ParserMessages.INVALID_REQUEST_INCORRECT_SIZE}

\* What a composition violates.  Every size token announces one byte.
BadHead(c) == c.head[1] # "*" \/ c.head[2] \notin {"1", "2"}
BadSize(token) == token[1] # "$"
BadValue(token) == Len(token) # 1
Announced(c) == DigitValue(c.head[2])
ValuesIn(c) == IF c.second = "pair" THEN 2 ELSE 1

\* The checks in the order token by token: the tokens, the head, then each
\* pair in turn (its size token, then its value), then the count.
ChecksInOrder(c) ==
    << [rule |-> 2, fails |-> c.tail # <<>>],
       [rule |-> 3, fails |-> BadHead(c)],
       [rule |-> 4, fails |-> BadSize(c.s1)],
       [rule |-> 5, fails |-> BadValue(c.v1)],
       [rule |-> 4, fails |-> c.second # "none" /\ BadSize(c.s2)],
       [rule |-> 5, fails |-> \/ c.second = "size_only"
                              \/ c.second = "pair" /\ BadValue(c.v2)],
       [rule |-> 6, fails |-> ~BadHead(c) /\ ValuesIn(c) # Announced(c)] >>

Failing(c) == {i \in DOMAIN ChecksInOrder(c) : ChecksInOrder(c)[i].fails}

RulesViolated(c) == {ChecksInOrder(c)[i].rule : i \in Failing(c)}

-----------------------------------------------------------------------------
(* identify_command step by step, on any bytes: the emptiness test, the      *)
(* iterations of the loop of tokenize_request, validate_request_structure.   *)

\* Longest byte sequence drawn from ScanBytes.
MaxScanLen == 4

ScanBytes == {"*", "$", "1", "a", CR, LF, NotUtf8}

AnyBytes == UNION {[1..n -> ScanBytes] : n \in 0..MaxScanLen}

\* The server as constructed, with any bytes or a composed frame at hand.
InitScan ==
    /\ InitServer
    /\ received \in AnyBytes \cup {BytesOf(how) : how \in Sendable}
    /\ identified = NothingIdentified
    /\ sent = NothingSent

ScanFrame == UNCHANGED <<index, strings, lists, poisoned, overflow_checks, request, result,
                         prev, M, worker, rpushed, received, sent, conn, handler>>

\* identify_command up to the call of tokenize_request.
BeginIdentify ==
    /\ scan.pc = "idle"
    /\ IF received = <<>>
       THEN /\ identified' = Failure(ParserMessages.EMPTY_REQUEST)
            /\ scan' = [scan EXCEPT !.pc = "returned"]
       ELSE /\ scan' = [scan EXCEPT !.pc = "tokenize"]
            /\ UNCHANGED identified
    /\ ScanFrame

\* One iteration of the while loop of tokenize_request.
NextToken ==
    /\ scan.pc = "tokenize"
    /\ scan.start < Len(received)
    /\ \E token \in {get_token(received, scan.start)} :
          IF token.ok
          THEN /\ scan' = [scan EXCEPT
                              !.start = @ + token.size,
                              !.tokens = Append(@, token),
                              !.reads = @ \cup get_token_reads(received, scan.start)]
               /\ UNCHANGED identified
          ELSE /\ scan' = [scan EXCEPT
                              !.pc = "returned",
                              !.reads = @ \cup get_token_reads(received, scan.start)]
               /\ identified' = Failure(token.err)
    /\ ScanFrame

\* The loop is left and validate_request_structure makes the result.
Validate ==
    /\ scan.pc = "tokenize"
    /\ scan.start >= Len(received)
    /\ identified' = validate_request_structure(scan.tokens)
    /\ scan' = [scan EXCEPT !.pc = "returned"]
    /\ ScanFrame

NextScan == BeginIdentify \/ NextToken \/ Validate

SpecScan == InitScan /\ [][NextScan]_vars

\* identify_command is one sequential call: it runs until it returns.
SpecScanFair == SpecScan /\ WF_vars(NextScan)

HasReturned == scan.pc = "returned"

ParserErrors == {ParserMessages[m] : m \in DOMAIN ParserMessages}

\* No position outside the input is read, no token is empty, and what is
\* returned is an argv or a ParserError.
ScanSafe ==
    /\ scan.reads \subseteq 0..(Len(received) - 1)
    /\ \A i \in 1..Len(scan.tokens) : Len(scan.tokens[i].value) >= 1
    /\ HasReturned =>
          \/ identified.ok /\ identified.argv # <<>>
          \/ ~identified.ok /\ identified.err \in ParserErrors

\* C40: for every byte sequence given to identify_command the call returns,
\* each token moves the read position on by at least three bytes, no position
\* outside the input is read, and what is returned is an argv or a
\* ParserError.
C40_ScanTerminates ==
    /\ []ScanSafe
    /\ [][scan'.start # scan.start => scan'.start >= scan.start + 3]_vars
    /\ <>HasReturned

\* The call has returned an argv made from three tokens or more.
C40_Witness == HasReturned /\ identified.ok /\ Len(scan.tokens) >= 3

\* A last token without CR LF moves the position past the end of the input.
C40_WitnessPastEnd == HasReturned /\ scan.start > Len(received) /\ Len(scan.tokens) >= 2

\* The steps return what identify_command returns.
ScanAgrees == HasReturned => identified = identify_command(received)

-----------------------------------------------------------------------------
(* One connection: handle_connection reads a buffer, identifies and          *)
(* dispatches the request in it and writes the reply, in a loop.             *)

MaxReads == 3

\* string_executor::is_string_command
is_string_command(verb) == StringExecutor_is_command_supported(verb)

\* string_executor::build_string_command
build_string_command(argv) == StringExecutor_build_command(argv)

\* string_executor::execute_string_command on the shared string_db
string_executor_execute_string_command(data, cmd, checks) ==
    StringExecutor_execute_command(data, cmd, checks)

\* format_error, which format_parse_error and format_execution_error call
\* with the error's message.
format_error(error) == "-ERR " \o error \o " " \o CRLF

\* What one pass of the loop leaves: the reply to write and the string_db, or
\* a panic before any reply.
Outcome(reply, data) == [panic |-> FALSE, reply |-> reply, data |-> data]
Panicked(data) == [panic |-> TRUE, reply |-> "", data |-> data]

\* The match on the result of execute_string_command.
executed(r) ==
    CASE r.kind = "ok" -> Outcome(r.cmd.response, r.data)
      [] r.kind = "err" -> Outcome(format_error(r.err), r.data)
      [] r.kind = "panic" -> Panicked(r.data)

\* The match on the identified command, down to the reply.
dispatch(identification, data, checks) ==
    IF ~identification.ok THEN Outcome(format_error(identification.err), data)
    ELSE IF is_string_command(identification.argv[1])
    THEN LET built == build_string_command(identification.argv) IN
         IF ~built.ok THEN Outcome(format_error(built.err), data)
         ELSE executed(string_executor_execute_string_command(data, built.cmd, checks))
    ELSE Outcome(format_error("-ERR Unknown Command " \o identification.argv[1]
                              \o " " \o CRLF), data)

\* What the client of the connection sends, one frame per read.
ClientArgvs ==
    { << <<"S", "E", "T">>, <<"a">>, <<"v">> >>,
      << <<"G", "E", "T">>, <<"a">> >>,
      << <<"I", "N", "C", "R">>, <<"a">> >>,
      << <<"G", "E", "T">> >>,
      << <<"P", "I", "N", "G">> >> }

\* A request that is no frame.
NoFrame == <<"x", CR, LF>>

ClientFrames == {Encode(argv) : argv \in ClientArgvs} \cup {NoFrame}

Running == handler.pc \in {"fill_buf", "write_all"}

ConnFrame == UNCHANGED <<index, lists, poisoned, overflow_checks, request, result, prev, M,
                         worker, rpushed, sent, scan>>

\* The Ok(received) arm up to the write: o is what dispatch made of the bytes.
Received(bytes, o) ==
    /\ received' = bytes
    /\ identified' = identify_command(bytes)
    /\ strings' = o.data
    /\ handler' = IF o.panic THEN [pc |-> "panicked_executing", reply |-> ""]
                  ELSE [pc |-> "write_all", reply |-> o.reply]

\* fill_buf returns the bytes of one request.
ReadRequest ==
    /\ handler.pc = "fill_buf"
    /\ conn.stream = "open"
    /\ Len(conn.frames) < MaxReads
    /\ \E frame \in ClientFrames :
          /\ \E o \in {dispatch(identify_command(frame), strings, overflow_checks)} :
                Received(frame, o)
          /\ conn' = [conn EXCEPT !.frames = Append(@, frame)]
    /\ ConnFrame

\* fill_buf returns Ok with no bytes: the peer has closed.
ReadEof ==
    /\ handler.pc = "fill_buf"
    /\ conn.stream = "eof"
    /\ \E o \in {dispatch(identify_command(<<>>), strings, overflow_checks)} :
          Received(<<>>, o)
    /\ UNCHANGED conn
    /\ ConnFrame

\* fill_buf returns Err: handle_connection returns.
ReadFails ==
    /\ handler.pc = "fill_buf"
    /\ conn.stream = "failed"
    /\ handler' = [pc |-> "returned", reply |-> ""]
    /\ UNCHANGED <<strings, received, identified, conn>>
    /\ ConnFrame

\* write_all that ends the loop once an error reply is written.
WriteReply_closes_after_error ==
    /\ handler.pc = "write_all"
    /\ conn.stream # "failed"
    /\ conn' = IF received = <<>> THEN [conn EXCEPT !.after_eof = TRUE]
               ELSE [conn EXCEPT !.written = Append(@, handler.reply)]
    /\ handler' = [pc |-> IF identified.ok THEN "fill_buf" ELSE "returned", reply |-> ""]
    /\ UNCHANGED <<strings, received, identified>>
    /\ ConnFrame

\* write_all returns Ok: the loop goes on to the next fill_buf.
WriteReply ==
    /\ handler.pc = "write_all"
    /\ conn.stream # "failed"
    /\ conn' = IF received = <<>> THEN [conn EXCEPT !.after_eof = TRUE]
               ELSE [conn EXCEPT !.written = Append(@, handler.reply)]
    /\ handler' = [pc |-> "fill_buf", reply |-> ""]
    /\ UNCHANGED <<strings, received, identified>>
    /\ ConnFrame

\* write_all returns Err: the unwrap panics.
WriteFails ==
    /\ handler.pc = "write_all"
    /\ conn.stream # "open"
    /\ handler' = [pc |-> "panicked_writing", reply |-> ""]
    /\ UNCHANGED <<strings, received, identified, conn>>
    /\ ConnFrame

\* The peer closes its side of the connection.
ClientCloses ==
    /\ conn.stream = "open"
    /\ conn' = [conn EXCEPT !.stream = "eof"]
    /\ UNCHANGED <<strings, received, identified, handler>>
    /\ ConnFrame

\* The connection breaks.
StreamFails ==
    /\ conn.stream \in {"open", "eof"}
    /\ conn' = [conn EXCEPT !.stream = "failed"]
    /\ UNCHANGED <<strings, received, identified, handler>>
    /\ ConnFrame

\* A step of handle_connection.
Handle == ReadRequest \/ ReadEof \/ ReadFails \/ WriteReply \/ WriteFails

NextConnection == Handle \/ ClientCloses \/ StreamFails

SpecConnection == Init /\ [][NextConnection]_vars

\* The thread of the handler keeps running while it has a step to take.
SpecConnectionFair == SpecConnection /\ WF_vars(Handle)

\* C28: when the connection's read returns EOF or an error, the handler
\* eventually leaves its loop instead of going on to process requests on
\* that connection.
C28_ExitsOnEofOrError ==
    (conn.stream # "open") ~> ~Running

\* After a read error the handler has returned; it never returns otherwise.
ReturnsOnReadError ==
    handler.pc = "returned" => conn.stream = "failed"

\* After EOF the handler has answered the empty read and is back at fill_buf.
AnswersEof ==
    /\ conn.stream = "eof" /\ conn.after_eof
    /\ handler.pc = "fill_buf"

\* The reply the i-th request of the connection must get, where the request
\* alone decides it.
IsParseError(frame) == ~identify_command(frame).ok

Sends(i, argv) == i \in 1..Len(conn.frames) /\ conn.frames[i] = Encode(argv)

NotAnInteger == "-ERR value is not an integer or out of range"

C36_ErrorReplyFormat ==
    \A i \in 1..Len(conn.written) :
        /\ IsParseError(conn.frames[i]) =>
              conn.written[i] = "-ERR " \o identify_command(conn.frames[i]).err \o " \r\n"
        /\ (Sends(i - 1, << <<"S", "E", "T">>, <<"a">>, <<"v">> >>)
            /\ Sends(i, << <<"I", "N", "C", "R">>, <<"a">> >>)) =>
              conn.written[i] = "-ERR value is not an integer or out of range \r\n"

\* The reply to an arithmetic command on a value that is no integer carries
\* the prefix twice: the message of the ExecutionError begins with it.
NotAnIntegerPrefixedTwice ==
    \A i \in 1..Len(conn.written) :
        (Sends(i - 1, << <<"S", "E", "T">>, <<"a">>, <<"v">> >>)
         /\ Sends(i, << <<"I", "N", "C", "R">>, <<"a">> >>)) =>
           conn.written[i] = "-ERR -ERR value is not an integer or out of range \r\n"

====
